------------------------- MODULE CommandLineProofs -------------------------
(***************************************************************************)
(* Proofs about the command line program, for any number of processes and  *)
(* whatever the agent does: the service of DBusService is a part of it, and *)
(* the exit codes of "relogin" tell what happened.                         *)
(***************************************************************************)
EXTENDS CommandLine, DBusServiceProofs

CommandTypeOK ==
    /\ cli \in [Callers -> {"off", "parse", "connect", "run", "wait", "close", "exit"}]
    /\ command \in [Callers -> Commands]
    /\ failed \in [Callers -> BOOLEAN]
    /\ code \in [Callers -> {"none", "ok", "error", "interrupted"}]
    /\ handled \in [Callers -> BOOLEAN]
    /\ left \in [Callers -> BOOLEAN]

\* The agent has one request at a time, and only while it can answer it.
RequestInv ==
    /\ request # NoCaller => call[request] = "waiting" /\ owner \in {"idle", "setting"}
    /\ \A k \in Callers : call[k] = "waiting" => request = k

\* A process that did not call yet has no call, and one that has its answer has none
\* that could still be answered.
Answered(k) == cli[k] \in {"close", "exit"} \/ code[k] \in {"ok", "error"}

CallInv ==
    \A k \in Callers :
        /\ cli[k] # "off" => code[k] = "none"
        /\ cli[k] \in {"parse", "connect", "run"} => call[k] = "idle" /\ ~handled[k]
        /\ Answered(k) => call[k] = "idle" \/ owner = "away"

\* What a process that waits will learn, and what one that has its answer knows.
TruthInv ==
    \A k \in Callers :
        /\ cli[k] = "wait" /\ call[k] = "ok" => handled[k]
        /\ cli[k] = "wait" /\ handled[k] =>
             left[k] \/ (call[k] = "ok" /\ owner \in {"idle", "setting"})
        /\ command[k] = "relogin" /\ cli[k] \in {"close", "exit"} =>
             IF failed[k] THEN handled[k] => left[k] ELSE handled[k]

CommandInv == CommandTypeOK /\ RequestInv /\ CallInv /\ TruthInv /\ ExitTellsTruth

-----------------------------------------------------------------------------
\* Nothing has been called or answered before the first step.
LEMMA CommandInitInv == Init => CommandInv
<1> SUFFICES ASSUME Init PROVE CommandInv
  OBVIOUS
<1> USE DEF Init, ServiceInit
<1>1. CommandTypeOK
  BY DEF CommandTypeOK, Commands
<1>2. RequestInv /\ CallInv /\ TruthInv /\ ExitTellsTruth
  BY DEF RequestInv, CallInv, Answered, TruthInv, ExitTellsTruth
<1> QED
  BY <1>1, <1>2 DEF CommandInv

\* For the service, a step of the processes is a step of its callers or none.
LEMMA CommandStepIsServiceStep == [Next]_vars => [ServiceNext]_serviceVars
<1> SUFFICES ASSUME [Next]_vars PROVE [ServiceNext]_serviceVars
  OBVIOUS
<1> USE DEF ServiceNext, ServiceStep
<1>1. CASE UNCHANGED vars
  BY <1>1 DEF vars
<1>2. ASSUME NEW k \in Callers, (\E c \in Commands : Launch(k, c)) \/ Interrupted(k)
      PROVE  UNCHANGED serviceVars
  BY <1>2 DEF Launch, Interrupted
<1>3. ASSUME NEW k \in Callers, ProcessStep(k)
      PROVE  [ServiceNext]_serviceVars
  <2>1. CASE ParseCommandLine(k) \/ NewClient(k) \/ GetStatus(k)
    BY <2>1 DEF ParseCommandLine, NewClient, GetStatus
  <2>2. CASE ReLogin(k) \/ Replies(k)
    BY <2>2 DEF ReLogin, Replies
  <2>3. CASE Disconnected(k) \/ Closes(k) \/ Exits(k)
    BY <2>3 DEF Disconnected, Closes, Exits
  <2> QED
    BY <1>3, <2>1, <2>2, <2>3 DEF ProcessStep
<1>4. ASSUME NEW k \in Callers, ReturnsUnheard(k)
      PROVE  [ServiceNext]_serviceVars
  BY <1>4 DEF ReturnsUnheard
<1>5. CASE Answers \/ Leaves
  BY <1>5 DEF Answers, Leaves
<1>6. CASE Goes
  BY <1>6 DEF Goes
<1>7. CASE LoopWaits \/ LoopReturns
  BY <1>7 DEF LoopWaits, LoopReturns
<1> QED
  BY <1>1, <1>2, <1>3, <1>4, <1>5, <1>6, <1>7 DEF Next, CallerStep

\* Whatever commands are run, the service is the one of DBusService.
THEOREM ServiceGoesOn == Spec => ServiceSpec
<1>1. Init => ServiceInit
  BY DEF Init
<1> QED
  BY <1>1, CommandStepIsServiceStep, PTL DEF Spec, ServiceSpec

\* Steps of the processes keep their types.
LEMMA CommandType == CommandTypeOK /\ [Next]_vars => CommandTypeOK'
<1> SUFFICES ASSUME CommandTypeOK, [Next]_vars PROVE CommandTypeOK'
  OBVIOUS
<1> USE DEF CommandTypeOK
<1>1. CASE UNCHANGED vars
  BY <1>1 DEF vars, cliVars
<1>2. ASSUME NEW k \in Callers, NEW c \in Commands, Launch(k, c)
      PROVE  CommandTypeOK'
  BY <1>2 DEF Launch
<1>3. ASSUME NEW k \in Callers, NEW from, NEW err \in BOOLEAN,
             NEW to \in {"connect", "run", "wait", "close", "exit"}, Moves(k, from, to, err)
      PROVE  CommandTypeOK'
  BY <1>3 DEF Moves
<1>4. ASSUME NEW k \in Callers, ProcessStep(k)
      PROVE  CommandTypeOK'
  <2>1. CASE ParseCommandLine(k) \/ NewClient(k)
    BY <1>3, <2>1 DEF ParseCommandLine, NewClient
  <2>2. CASE GetStatus(k)
    BY <1>3, <2>2 DEF GetStatus
  <2>3. CASE ReLogin(k) \/ Replies(k)
    BY <1>3, <2>3 DEF ReLogin, Replies
  <2>4. CASE Disconnected(k)
    BY <1>3, <2>4 DEF Disconnected
  <2>5. CASE Closes(k)
    BY <1>3, <2>5 DEF Closes
  <2>6. CASE Exits(k)
    BY <2>6 DEF Exits
  <2> QED
    BY <1>4, <2>1, <2>2, <2>3, <2>4, <2>5, <2>6 DEF ProcessStep
<1>5. ASSUME NEW k \in Callers, Interrupted(k) \/ ReturnsUnheard(k)
      PROVE  CommandTypeOK'
  BY <1>5 DEF Interrupted, ReturnsUnheard, cliVars
<1>6. CASE Answers
  BY <1>6 DEF Answers
<1>7. CASE Leaves
  BY <1>7 DEF Leaves
<1>8. CASE UNCHANGED cliVars
  BY <1>8 DEF cliVars
<1> QED
  BY <1>1, <1>2, <1>4, <1>5, <1>6, <1>7, <1>8 DEF Next, CallerStep, LoopWaits, LoopReturns

\* The agent's request and the calls that wait belong together.
LEMMA RequestStep ==
    ServiceInv /\ RequestInv /\ [ServiceNext]_serviceVars => RequestInv'
<1> SUFFICES ASSUME ServiceInv, RequestInv, [ServiceNext]_serviceVars PROVE RequestInv'
  OBVIOUS
<1>1. /\ call \in [Callers -> {"idle", "sending", "waiting", "ok", "refused"}]
      /\ request \in Callers \union {NoCaller} /\ NoCaller \notin Callers
      /\ OwnerInv
  BY ServiceAssumption DEF ServiceInv, ServiceTypeOK
<1> USE DEF RequestInv
<1>2. CASE UNCHANGED serviceVars
  BY <1>2 DEF serviceVars
<1>3. CASE Start \/ Export \/ Crash
  BY <1>1, <1>3 DEF Start, Export, Crash, OwnerInv, Gone
<1>4. CASE AgentSets \/ TakesUpdate \/ DoneCase \/ Stop
  BY <1>1, <1>4 DEF AgentSets, SetProperty, TakesUpdate, DoneCase, Stop
<1>5. CASE SetMust
  BY <1>1, <1>5 DEF SetMust, OwnerInv, Gone
<1>6. ASSUME NEW k \in Callers, CallReLogin(k) \/ TakesRequest(k) \/ ReLoginReturns(k)
      PROVE  RequestInv'
  BY <1>1, <1>6 DEF CallReLogin, TakesRequest, ReLoginReturns
<1>7. CASE ClosesRequest
  BY <1>1, <1>7 DEF ClosesRequest
<1> QED
  BY <1>2, <1>3, <1>4, <1>5, <1>6, <1>7 DEF ServiceNext, ServiceStep

\* What a process knows of its call follows from each step: the answer that it gets
\* is the one that the agent gave, unless the agent is leaving.
LEMMA TruthStep ==
    ServiceInv /\ CommandInv /\ [Next]_vars => CallInv' /\ TruthInv' /\ ExitTellsTruth'
<1> SUFFICES ASSUME ServiceInv, CommandInv, [Next]_vars
             PROVE  CallInv' /\ TruthInv' /\ ExitTellsTruth'
  OBVIOUS
<1>1. /\ call \in [Callers -> {"idle", "sending", "waiting", "ok", "refused"}]
      /\ request \in Callers \union {NoCaller} /\ NoCaller \notin Callers
      /\ OwnerInv
  BY ServiceAssumption DEF ServiceInv, ServiceTypeOK
<1>2. CommandTypeOK /\ CommandTypeOK' /\ RequestInv
  BY CommandType DEF CommandInv
<1>3. CallInv /\ TruthInv /\ ExitTellsTruth
  BY DEF CommandInv
<1> USE DEF CommandTypeOK, CallInv, Answered, TruthInv, ExitTellsTruth
<1>4. CASE UNCHANGED vars \/ LoopWaits \/ LoopReturns
  BY <1>3, <1>4 DEF vars, cliVars, serviceVars, LoopWaits, LoopReturns
<1>5. ASSUME NEW k \in Callers, NEW c \in Commands, Launch(k, c)
      PROVE  CallInv' /\ TruthInv' /\ ExitTellsTruth'
  BY <1>1, <1>2, <1>3, <1>5 DEF Launch, serviceVars
<1>6. ASSUME NEW k \in Callers, ProcessStep(k)
      PROVE  CallInv' /\ TruthInv' /\ ExitTellsTruth'
  <2>1. CASE ParseCommandLine(k)
    BY <1>1, <1>2, <1>3, <2>1 DEF ParseCommandLine, Moves, serviceVars
  <2>2. CASE NewClient(k)
    BY <1>1, <1>2, <1>3, <2>2 DEF NewClient, Moves, serviceVars
  <2>3. CASE GetStatus(k)
    BY <1>1, <1>2, <1>3, <2>3 DEF GetStatus, Moves, serviceVars
  <2>4. CASE ReLogin(k)
    BY <1>1, <1>2, <1>3, <2>4 DEF ReLogin, Moves, CallReLogin, serviceVars
  <2>5. CASE Replies(k)
    BY <1>1, <1>2, <1>3, <2>5 DEF Replies, ReLoginReturns, Moves, OwnerInv
  <2>6. CASE Disconnected(k)
    BY <1>1, <1>2, <1>3, <2>6 DEF Disconnected, Moves, serviceVars, OwnerInv, Gone
  <2>7. CASE Closes(k)
    BY <1>1, <1>2, <1>3, <2>7 DEF Closes, Moves, serviceVars
  <2>8. CASE Exits(k)
    BY <1>1, <1>2, <1>3, <2>8 DEF Exits, serviceVars
  <2> QED
    BY <1>6, <2>1, <2>2, <2>3, <2>4, <2>5, <2>6, <2>7, <2>8 DEF ProcessStep
<1>7. ASSUME NEW k \in Callers, Interrupted(k)
      PROVE  CallInv' /\ TruthInv' /\ ExitTellsTruth'
  BY <1>1, <1>2, <1>3, <1>7 DEF Interrupted, serviceVars
<1>8. ASSUME NEW k \in Callers, ReturnsUnheard(k)
      PROVE  CallInv' /\ TruthInv' /\ ExitTellsTruth'
  BY <1>1, <1>2, <1>3, <1>8 DEF ReturnsUnheard, ReLoginReturns, cliVars, OwnerInv, Gone
<1>9. CASE Answers
  <2>1. /\ UNCHANGED <<cli, command, failed, code, left, owner>>
        /\ owner = "idle" /\ request \in Callers /\ call[request] = "waiting"
    BY <1>1, <1>2, <1>9 DEF Answers, ClosesRequest, RequestInv
  <2>2. PICK a \in {"ok", "refused"} : call' = [call EXCEPT ![request] = a]
    BY <1>9 DEF Answers, ClosesRequest
  <2>3. ASSUME NEW k \in Callers, k # request
        PROVE  call'[k] = call[k] /\ call[k] # "waiting"
    BY <1>1, <1>2, <2>2, <2>3 DEF RequestInv
  <2>4. ASSUME NEW k \in Callers, k # request PROVE handled'[k] = handled[k]
    <3>1. call'[k] # "ok" \/ call[k] # "waiting"
      BY <2>3, <2>4
    <3>2. handled'[k] = (handled[k] \/ (call[k] = "waiting" /\ call'[k] = "ok"))
      BY <1>9 DEF Answers
    <3>3. handled[k] \in BOOLEAN
      BY <1>2
    <3> QED
      BY <3>1, <3>2, <3>3
  <2>5. call'[request] = a /\ (handled'[request] = (handled[request] \/ a = "ok"))
    BY <1>1, <1>9, <2>1, <2>2 DEF Answers
  <2>6. ~Answered(request) /\ cli[request] \notin {"parse", "connect", "run"}
    BY <1>3, <2>1
  <2>7. cli[request] = "wait" /\ handled[request] => left[request]
    BY <1>3, <2>1
  <2>8. ASSUME NEW k \in Callers
        PROVE  /\ cli'[k] # "off" => code'[k] = "none"
               /\ cli'[k] \in {"parse", "connect", "run"} => call'[k] = "idle" /\ ~handled'[k]
               /\ Answered(k)' => call'[k] = "idle" \/ owner' = "away"
    BY <1>3, <2>1, <2>3, <2>4, <2>6
  <2>9. ASSUME NEW k \in Callers
        PROVE  /\ cli'[k] = "wait" /\ call'[k] = "ok" => handled'[k]
               /\ cli'[k] = "wait" /\ handled'[k] =>
                    left'[k] \/ (call'[k] = "ok" /\ owner' \in {"idle", "setting"})
    BY <1>3, <2>1, <2>3, <2>4, <2>5, <2>7
  <2>10. ASSUME NEW k \in Callers, command'[k] = "relogin"
         PROVE  /\ cli'[k] \in {"close", "exit"} =>
                      IF failed'[k] THEN handled'[k] => left'[k] ELSE handled'[k]
                /\ code'[k] = "ok" => handled'[k]
                /\ code'[k] = "error" /\ handled'[k] => left'[k]
    BY <1>3, <2>1, <2>4, <2>6, <2>10
  <2> QED
    BY <2>8, <2>9, <2>10
<1>10. CASE Leaves
  BY <1>1, <1>2, <1>3, <1>10 DEF Leaves, Stop, Crash
<1>11. CASE Goes /\ UNCHANGED cliVars
  <2>1. CASE Start \/ Export \/ AgentSets \/ TakesUpdate \/ DoneCase
    BY <1>1, <1>2, <1>3, <1>11, <2>1
       DEF Start, Export, AgentSets, SetProperty, TakesUpdate, DoneCase, cliVars, OwnerInv, Gone
  <2>2. CASE SetMust
    BY <1>1, <1>2, <1>3, <1>11, <2>2 DEF SetMust, cliVars, OwnerInv, Gone
  <2>3. ASSUME NEW k \in Callers, TakesRequest(k)
        PROVE  CallInv' /\ TruthInv' /\ ExitTellsTruth'
    BY <1>1, <1>2, <1>3, <1>11, <2>3 DEF TakesRequest, cliVars
  <2> QED
    BY <1>11, <2>1, <2>2, <2>3 DEF Goes
<1> QED
  BY <1>4, <1>5, <1>6, <1>7, <1>8, <1>9, <1>10, <1>11 DEF Next, CallerStep

\* A "relogin" that ends without an error had the agent do the restart, and one that
\* ends with an error though it was done had its agent leave meanwhile.
THEOREM ReLoginExit == Spec => []ExitTellsTruth
<1>1. ServiceInv /\ CommandInv /\ [Next]_vars => CommandInv'
  BY CommandType, RequestStep, CommandStepIsServiceStep, TruthStep DEF CommandInv
<1>2. CommandInv => ExitTellsTruth
  BY DEF CommandInv
<1> QED
  BY <1>1, <1>2, CommandInitInv, ServiceGoesOn, ServiceInvariant, PTL DEF Spec

\* So what the properties show is current, and unknown after the end of the agent,
\* for the commands that read them too.
THEOREM CommandsReadCurrent == Spec => [](PublishedCurrent /\ UnknownAfterStop)
  BY ServiceGoesOn, PropertiesAreCurrent, NothingLeft, PTL

=============================================================================
