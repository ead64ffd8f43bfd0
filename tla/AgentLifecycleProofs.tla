------------------------ MODULE AgentLifecycleProofs ------------------------
(***************************************************************************)
(* Proofs that at most one agent works at a time, and with the config that *)
(* it was given, for any number of processes and parts, and any command    *)
(* lines and config files.                                                 *)
(***************************************************************************)
EXTENDS AgentLifecycle, TLAPS

\* The D-Bus service is a part.
LEMMA DBusIsPart == DBus \in Parts /\ 1 \in 1..Len(Order) /\ Unit \in Processes
  BY ProcessAssumption DEF DBus

PartTypeOK ==
    /\ main \in [Processes -> {"off", "config", "delay", "start", "started", "wait",
                               "stop", "stopping"}]
    /\ loop \in [Processes -> {"none", "select", "busy", "logout", "stops", "closed"}]
    /\ part \in [Processes -> [Parts -> {"down", "up", "gone", "stopped"}]]
    /\ client \in [Processes -> BOOLEAN]
    /\ errors \in [Processes -> BOOLEAN]
    /\ err \in [Processes -> BOOLEAN]

\* The D-Bus service outlasts all other parts and the loop, and is up just as long as
\* the process has the name.  A client is in a request beside the loop, or after one
\* that failed.
NameInv ==
    \A p \in Processes :
        /\ part[p][DBus] # "gone"
        /\ part[p][DBus] = "up" <=> name = p
        /\ main[p] \in {"off", "config", "delay", "start"} => loop[p] = "none"
        /\ loop[p] # "none" => \A x \in Parts : part[p][x] # "down"
        /\ loop[p] \notin {"stops", "closed"} => \A x \in Parts : part[p][x] # "stopped"
        /\ \A x \in Parts : part[p][x] \in {"up", "gone"} => part[p][DBus] = "up"
        /\ client[p] => loop[p] \in {"select", "busy", "logout"} \/ errors[p] \/ err[p]
        /\ errors[p] \/ err[p] => loop[p] \in {"stops", "closed"}

\* No step takes a process, its loop or its parts anywhere else.
LEMMA PartType == PartTypeOK /\ [Next]_vars => PartTypeOK'
<1> SUFFICES ASSUME PartTypeOK, [Next]_vars PROVE PartTypeOK'
  OBVIOUS
<1> USE DBusIsPart DEF PartTypeOK
<1>1. CASE UNCHANGED vars
  BY <1>1 DEF vars, processVars
<1>2. ASSUME NEW p \in Processes, NEW c, Exit(p, c) PROVE PartTypeOK'
  BY <1>2 DEF Exit
<1>3. ASSUME NEW p \in Processes, NEW a, Launch(p, a) PROVE PartTypeOK'
  BY <1>3 DEF Launch
<1>4. ASSUME NEW p \in Processes, Interrupt(p) PROVE PartTypeOK'
  BY <1>2, <1>4 DEF Interrupt
<1>5. ASSUME NEW p \in Processes, ProcessStep(p) PROVE PartTypeOK'
  <2>1. CASE GetConfig(p) \/ DelayEnds(p) \/ StartFails(p) \/ LaunchesLoop(p)
    BY <1>2, <2>1 DEF GetConfig, DelayEnds, StartFails, LaunchesLoop, MainMoves
  <2>2. CASE StartsPart(p)
    <3>1. PICK i \in 1..Len(Order) : StartsNext(p, i)
      BY <2>2 DEF StartsPart
    <3>2. Order[i] \in Parts
      BY ProcessAssumption
    <3> QED
      BY <3>1, <3>2 DEF StartsNext
  <2>3. CASE CatchesInterrupts(p) \/ TakesInterrupt(p) \/ TakesError(p) \/ Stop(p)
    BY <2>3 DEF CatchesInterrupts, TakesInterrupt, TakesError, Stop, MainMoves
  <2>4. CASE Returns(p) \/ Crash(p)
    BY <1>2, <2>4 DEF Returns, Crash
  <2>5. CASE HandlesEvent(p) \/ HandlerReturns(p) \/ RequestEnds(p)
             \/ LoopFails(p) \/ LoopDone(p) \/ LogoutReturns(p) \/ LoopCloses(p)
    BY <2>5 DEF HandlesEvent, HandlerReturns, RequestEnds, LoopFails, LoopDone,
                LogoutReturns, LoopCloses, LoopMoves
  <2>6. CASE StopsPart(p)
    <3>1. PICK i \in 1..Len(Order) : part' = [part EXCEPT ![p][Order[i]] = "stopped"]
      BY <2>6 DEF StopsPart
    <3>2. Order[i] \in Parts
      BY ProcessAssumption
    <3> QED
      BY <2>6, <3>1, <3>2 DEF StopsPart
  <2>7. CASE PartCloses(p)
    BY <2>7 DEF PartCloses
  <2> QED
    BY <1>5, <2>1, <2>2, <2>3, <2>4, <2>5, <2>6, <2>7 DEF ProcessStep
<1>6. CASE SystemdStarts \/ SystemdStops \/ SystemdRestarts
  BY <1>3, <1>4, <1>6 DEF SystemdStarts, SystemdStops, SystemdRestarts, processVars
<1> QED
  BY <1>1, <1>3, <1>4, <1>5, <1>6 DEF Next, InterruptByHand, LaunchByHand

\* The end of a process keeps the invariant, wherever it comes.
LEMMA ExitKeepsNames ==
    ASSUME PartTypeOK, NameInv, NEW p \in Processes, NEW c, Exit(p, c)
    PROVE  NameInv'
  BY DBusIsPart, ProcessAssumption DEF PartTypeOK, NameInv, Exit

\* So does its start.
LEMMA LaunchKeepsNames ==
    ASSUME PartTypeOK, NameInv, NEW p \in Processes, NEW a, Launch(p, a)
    PROVE  NameInv'
  BY DBusIsPart DEF PartTypeOK, NameInv, Launch

\* And an interrupt.
LEMMA InterruptKeepsNames ==
    ASSUME PartTypeOK, NameInv, NEW p \in Processes, Interrupt(p)
    PROVE  NameInv'
  BY ExitKeepsNames DEF PartTypeOK, NameInv, Interrupt

\* The steps of a process keep it: Start takes the name before all else, and the
\* deferred stops give it back after all else.
LEMMA ProcessKeepsNames ==
    ASSUME PartTypeOK, NameInv, NEW p \in Processes, ProcessStep(p)
    PROVE  NameInv'
<1> USE DBusIsPart DEF PartTypeOK, NameInv
<1>1. CASE GetConfig(p) \/ DelayEnds(p) \/ StartFails(p)
  BY <1>1, ExitKeepsNames DEF GetConfig, DelayEnds, StartFails, MainMoves
<1>2. CASE StartsPart(p)
  <2>1. PICK i \in 1..Len(Order) :
           /\ StartsNext(p, i)
           /\ \/ Order[i] = DBus /\ name = NoProcess /\ name' = p
              \/ Order[i] # DBus /\ name' = name
    BY <1>2 DEF StartsPart
  <2>2. /\ Order[i] \in Parts /\ NoProcess \notin Processes
        /\ main[p] = "start" /\ loop[p] = "none" /\ UNCHANGED <<main, loop, client, errors, err>>
        /\ part' = [part EXCEPT ![p][Order[i]] = "up"]
    BY <2>1, ProcessAssumption DEF StartsNext
  <2>3. CASE Order[i] = DBus
    BY <2>1, <2>2, <2>3
  <2>4. CASE Order[i] # DBus
    <3>1. i # 1 /\ 1 \in 1..i-1
      BY <2>4, ProcessAssumption DEF DBus
    <3>2. part[p][DBus] # "down"
      BY <2>1, <3>1 DEF StartsNext, DBus
    <3>3. part[p][DBus] = "up"
      BY <2>2, <3>2
    <3> QED
      BY <2>1, <2>2, <2>4, <3>3
  <2> QED
    BY <2>3, <2>4
<1>3. CASE LaunchesLoop(p)
  BY <1>3 DEF LaunchesLoop, AllStarted, MainMoves
<1>4. CASE CatchesInterrupts(p) \/ TakesInterrupt(p) \/ TakesError(p) \/ Stop(p)
  BY <1>4 DEF CatchesInterrupts, TakesInterrupt, TakesError, Stop, MainMoves
<1>5. CASE Returns(p) \/ Crash(p)
  BY <1>5, ExitKeepsNames DEF Returns, Crash
<1>6. CASE HandlesEvent(p) \/ HandlerReturns(p) \/ RequestEnds(p)
           \/ LoopFails(p) \/ LoopDone(p) \/ LogoutReturns(p) \/ LoopCloses(p)
  BY <1>6 DEF HandlesEvent, HandlerReturns, RequestEnds, LoopFails, LoopDone,
              LogoutReturns, LoopCloses, LoopMoves
<1>7. CASE StopsPart(p)
  <2>1. PICK i \in 1..Len(Order) :
           /\ part[p][Order[i]] # "stopped"
           /\ \A j \in i+1..Len(Order) : part[p][Order[j]] = "stopped"
           /\ part' = [part EXCEPT ![p][Order[i]] = "stopped"]
           /\ name' = IF Order[i] = DBus THEN NoProcess ELSE name
    BY <1>7 DEF StopsPart
  <2>2. /\ loop[p] = "stops" /\ UNCHANGED <<main, loop, client, errors, err>>
        /\ Order[i] \in Parts /\ NoProcess \notin Processes
    BY <1>7, ProcessAssumption DEF StopsPart
  <2>3. CASE Order[i] = DBus
    <3>1. i = 1
      BY <2>3, ProcessAssumption DEF DBus
    <3>2. ASSUME NEW x \in Parts, x # DBus PROVE part[p][x] = "stopped"
      <4>1. PICK j \in 1..Len(Order) : Order[j] = x
        BY ProcessAssumption
      <4>2. j \in i+1..Len(Order)
        BY <3>1, <3>2, <4>1, ProcessAssumption DEF DBus
      <4> QED
        BY <2>1, <4>1, <4>2
    <3>3. part[p][DBus] = "up"
      BY <2>1, <2>2, <2>3
    <3> QED
      BY <2>1, <2>2, <2>3, <3>2, <3>3
  <2>4. CASE Order[i] # DBus
    BY <2>1, <2>2, <2>4
  <2> QED
    BY <2>3, <2>4
<1>8. CASE PartCloses(p)
  BY <1>8 DEF PartCloses
<1> QED
  BY <1>1, <1>2, <1>3, <1>4, <1>5, <1>6, <1>7, <1>8 DEF ProcessStep

\* The invariant is inductive.
LEMMA NameStep == PartTypeOK /\ NameInv /\ [Next]_vars => NameInv'
<1> SUFFICES ASSUME PartTypeOK, NameInv, [Next]_vars PROVE NameInv'
  OBVIOUS
<1>1. CASE UNCHANGED vars
  BY <1>1 DEF vars, processVars, NameInv
<1>2. CASE SystemdStarts \/ SystemdRestarts
  BY <1>2, DBusIsPart, LaunchKeepsNames DEF SystemdStarts, SystemdRestarts
<1>3. CASE SystemdStops
  BY <1>3, DBusIsPart, InterruptKeepsNames DEF SystemdStops, processVars, NameInv
<1> QED
  BY <1>1, <1>2, <1>3, LaunchKeepsNames, InterruptKeepsNames, ProcessKeepsNames
     DEF Next, InterruptByHand, LaunchByHand

\* However many agents are started, stopped, killed and restarted, by hand and by
\* systemd: one works at a time, since the name outlasts all it does, but for the
\* request in which a failed loop may leave its client.
THEOREM OnlyOneAgent == Spec => []OneAgent
<1>1. Init => PartTypeOK /\ NameInv
  BY DBusIsPart, ProcessAssumption DEF Init, PartTypeOK, NameInv
<1>2. PartTypeOK /\ NameInv => OneAgent
  <2> SUFFICES ASSUME PartTypeOK, NameInv, NEW p \in Processes, Works(p), ~Lingers(p)
               PROVE  name = p
    BY DEF OneAgent
  <2> USE DBusIsPart DEF PartTypeOK, NameInv
  <2>1. CASE loop[p] \in {"select", "busy", "logout"}
    BY <2>1
  <2>2. CASE \E x \in Parts \ {DBus} : part[p][x] \in {"up", "gone"}
    BY <2>2
  <2>3. CASE client[p]
    BY <2>1, <2>3 DEF Lingers
  <2> QED
    BY <2>1, <2>2, <2>3 DEF Works
<1> QED
  BY <1>1, <1>2, PartType, NameStep, PTL DEF Spec

-----------------------------------------------------------------------------
\* Each setting has a default value.
LEMMA DefaultIsFull == DOMAIN Default = Settings
  BY DEF Default, Settings, Texts, Numbers, Switches

\* What Combined makes of a setting, whatever else the file and the command line
\* mention: flags first, then the file, then the default.
LEMMA CombinedPrecedence ==
    ASSUME NEW a, NEW f, NEW s \in Settings \ {"HTTPSServers"}
    PROVE  Combined(a, f)[s] = CASE s \in DOMAIN a.flags -> a.flags[s]
                                 [] s \notin DOMAIN a.flags /\ a.useFile
                                      /\ s \in DOMAIN f.settings -> f.settings[s]
                                 [] OTHER -> Default[s]
<1> DEFINE base == IF a.useFile THEN Load(f) ELSE Default
<1>1. /\ s \in DOMAIN Load(f)
      /\ Load(f)[s] = IF s \in DOMAIN f.settings THEN f.settings[s] ELSE Default[s]
  BY DefaultIsFull DEF Load, Over
<1>2. s \in DOMAIN base
  BY <1>1, DefaultIsFull
<1>3. Overwrite(base, a.flags)[s] = IF s \in DOMAIN a.flags THEN a.flags[s] ELSE base[s]
  BY <1>2 DEF Overwrite, Over
<1> HIDE DEF base
<1>4. Combined(a, f) = Overwrite(base, a.flags)
  BY DEF Combined, base
<1> QED
  BY <1>1, <1>3, <1>4 DEF base

\* A process that waits for its start delay has the config that getConfig made of
\* its command line and of the file, and getConfig returned no error.
ConfigInv ==
    /\ main \in [Processes -> {"off", "config", "delay", "start", "started", "wait",
                               "stop", "stopping"}]
    /\ DOMAIN args = Processes /\ DOMAIN cfg = Processes
    /\ \A p \in Processes : main[p] = "delay" =>
          /\ ConfigOK(args[p], file)
          /\ cfg[p] = Combined(args[p], file)

\* Only getConfig leads to the delay, and nothing changes the command line or the
\* config meanwhile.
LEMMA ConfigStep == PartTypeOK' /\ ConfigInv /\ [Next]_vars => ConfigInv'
<1> SUFFICES ASSUME PartTypeOK', ConfigInv, [Next]_vars PROVE ConfigInv'
  OBVIOUS
<1> USE DEF ConfigInv, PartTypeOK
<1>1. CASE UNCHANGED vars
  BY <1>1 DEF vars, processVars
<1>2. ASSUME NEW p \in Processes, NEW c, Exit(p, c) PROVE ConfigInv'
  BY <1>2 DEF Exit
<1>3. ASSUME NEW p \in Processes, NEW a, Launch(p, a) PROVE ConfigInv'
  BY <1>3 DEF Launch
<1>4. ASSUME NEW p \in Processes, Interrupt(p) PROVE ConfigInv'
  BY <1>2, <1>4 DEF Interrupt
<1>5. ASSUME NEW p \in Processes, ProcessStep(p) PROVE ConfigInv'
  <2>1. CASE GetConfig(p)
    BY <1>2, <2>1 DEF GetConfig, MainMoves
  <2>2. CASE DelayEnds(p)
    BY <2>2 DEF DelayEnds, MainMoves
  <2>3. CASE StartFails(p) \/ Returns(p) \/ Crash(p)
    BY <1>2, <2>3 DEF StartFails, Returns, Crash
  <2>4. CASE LaunchesLoop(p) \/ CatchesInterrupts(p) \/ TakesInterrupt(p)
             \/ TakesError(p) \/ Stop(p)
    BY <2>4 DEF LaunchesLoop, CatchesInterrupts, TakesInterrupt, TakesError, Stop,
                MainMoves
  <2>5. CASE StartsPart(p) \/ StopsPart(p) \/ PartCloses(p)
    BY <2>5 DEF StartsPart, StartsNext, StopsPart, PartCloses
  <2>6. CASE HandlesEvent(p) \/ HandlerReturns(p) \/ RequestEnds(p)
             \/ LoopFails(p) \/ LoopDone(p) \/ LogoutReturns(p) \/ LoopCloses(p)
    BY <2>6 DEF HandlesEvent, HandlerReturns, RequestEnds, LoopFails, LoopDone,
                LogoutReturns, LoopCloses, LoopMoves
  <2> QED
    BY <1>5, <2>1, <2>2, <2>3, <2>4, <2>5, <2>6 DEF ProcessStep
<1>6. CASE SystemdStarts \/ SystemdStops \/ SystemdRestarts
  BY <1>3, <1>4, <1>6, DBusIsPart
     DEF SystemdStarts, SystemdStops, SystemdRestarts, processVars
<1> QED
  BY <1>1, <1>3, <1>4, <1>5, <1>6 DEF Next, InterruptByHand, LaunchByHand

\* An agent starts with a valid config only, and each setting in it is the one of
\* the command line, of the file or the default, in this order.
THEOREM StartsWithConfig == Spec => []ConfigInEffect
<1>1. Init => PartTypeOK /\ ConfigInv
  BY DBusIsPart DEF Init, PartTypeOK, ConfigInv
<1>2. ConfigInv => ConfigInEffect
  <2> SUFFICES ASSUME ConfigInv, NEW p \in Processes, main[p] = "delay"
               PROVE  /\ Valid(cfg[p])
                      /\ \A s \in Settings \ {"HTTPSServers"} :
                            cfg[p][s] =
                              CASE s \in DOMAIN args[p].flags -> args[p].flags[s]
                                [] s \notin DOMAIN args[p].flags /\ args[p].useFile
                                     /\ s \in DOMAIN file.settings -> file.settings[s]
                                [] OTHER -> Default[s]
    BY DEF ConfigInEffect
  <2>1. ConfigOK(args[p], file) /\ cfg[p] = Combined(args[p], file)
    BY DEF ConfigInv
  <2>2. Valid(cfg[p])
    BY <2>1 DEF ConfigOK
  <2> QED
    BY <2>1, <2>2, CombinedPrecedence
<1> QED
  BY <1>1, <1>2, PartType, ConfigStep, PTL DEF Spec

=============================================================================
