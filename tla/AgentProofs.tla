---------------------------- MODULE AgentProofs ----------------------------
(***************************************************************************)
(* Proofs about the identity agent client, alone and as the agent's part,  *)
(* and about the agent with its clients, for every set of clients,         *)
(* ccaches, configs and callers: type correctness, the inductive invariant *)
(* IInv and what follows from it.                                          *)
(***************************************************************************)
EXTENDS Agent, TLAPS

-----------------------------------------------------------------------------
(* The client *)

USE CredentialsAssumption, DurationsAssumption

\* The zero values of the client objects have their types.
LEMMA ClientInitType == ClientInit => ClientTypeOK
<1> SUFFICES ASSUME ClientInit PROVE ClientTypeOK
  OBVIOUS
<1> USE DEF ClientInit, ClientTypeOK
<1>1. /\ pc \in [Clients -> Steps]
      /\ timer \in [Clients -> {"armed", "fired", "received"}]
      /\ outcome \in [Clients -> {"none", "ok", "unparsed", "failed"}]
  BY DEF Steps
<1>2. /\ period \in [Clients -> Durations]
      /\ keepAlive \in [Clients -> KeepAlives]
      /\ ccache \in [Clients -> CCaches \union {NoCCache}]
      /\ krb5conf \in [Clients -> Krb5Confs \union {NoKrb5Conf}]
  BY DEF Durations, KeepAlives
<1>3. /\ done \in [Clients -> BOOLEAN]
      /\ usable \in [Clients -> BOOLEAN]
      /\ session \in BOOLEAN
  OBVIOUS
<1> QED
  BY <1>1, <1>2, <1>3

\* Each step a client takes without its owner keeps the types of its variables.
LEMMA ClientStepType ==
    ASSUME ClientTypeOK, NEW c \in Clients, ClientStep(c)
    PROVE  ClientTypeOK'
<1> USE DEF ClientTypeOK, Steps, Sends, LogoutSteps, Durations
<1>1. CASE TimerFires(c)
  BY <1>1 DEF TimerFires
<1>2. CASE TimerCase(c)
  BY <1>2 DEF TimerCase
<1>3. CASE DoneCase(c)
  BY <1>3 DEF DoneCase
<1>4. CASE SendAborts(c)
  BY <1>4 DEF SendAborts, SendReturns, AfterSend, ResetTimer
<1>5. CASE LoginStarts(c)
  BY <1>5 DEF LoginStarts, RequestStarts
<1>6. CASE LoginReturns(c)
  <2>1. ASSUME NEW k \in ServedKeepAlives, LoginOK(c, k)
        PROVE  ClientTypeOK'
    <3>1. (IF k > 0 THEN k ELSE keepAlive[c]) \in KeepAlives
      BY DEF KeepAlives
    <3> QED
      BY <2>1, <3>1 DEF LoginOK, LoginEnds
  <2>2. CASE LoginUnparsed(c)
    BY <2>2 DEF LoginUnparsed, LoginEnds
  <2>3. CASE LoginFailed(c)
    <3>1. session' \in BOOLEAN
      BY <2>3, Zenon DEF LoginFailed
    <3> QED
      BY <2>3, <3>1 DEF LoginFailed, LoginEnds
  <2> QED
    BY <1>6, <2>1, <2>2, <2>3 DEF LoginReturns
<1>7. CASE LogoutStarts(c)
  BY <1>7 DEF LogoutStarts, RequestStarts
<1>8. CASE LogoutEnds(c)
  BY <1>8 DEF LogoutEnds
<1>9. CASE Closes(c)
  BY <1>9 DEF Closes, KeepAlives
<1> QED
  BY <1>1, <1>2, <1>3, <1>4, <1>5, <1>6, <1>7, <1>8, <1>9 DEF ClientStep

\* So do the calls of its owner, and a result that is received.
LEMMA OwnerCallType ==
    ASSUME ClientTypeOK, NEW c \in Clients
    PROVE  /\ \A cc \in CCaches \union {NoCCache}, kc \in Krb5Confs \union {NoKrb5Conf} :
                 StartNewClient(c, cc, kc) => ClientTypeOK'
           /\ CloseDone(c) => ClientTypeOK'
           /\ \A cc \in CCaches : SetCCache(c, cc) => ClientTypeOK'
           /\ \A kc \in Krb5Confs : SetKrb5Conf(c, kc) => ClientTypeOK'
           /\ SendReturns(c) => ClientTypeOK'
<1> USE DEF ClientTypeOK, Steps, Sends, LogoutSteps, Durations
<1>1. \A cc \in CCaches \union {NoCCache}, kc \in Krb5Confs \union {NoKrb5Conf} :
         StartNewClient(c, cc, kc) => ClientTypeOK'
  BY DEF StartNewClient, KeepAlives
<1>2. CloseDone(c) => ClientTypeOK'
  BY DEF CloseDone
<1>3. \A cc \in CCaches : SetCCache(c, cc) => ClientTypeOK'
  BY DEF SetCCache
<1>4. \A kc \in Krb5Confs : SetKrb5Conf(c, kc) => ClientTypeOK'
  BY DEF SetKrb5Conf
<1>5. SendReturns(c) => ClientTypeOK'
  BY DEF SendReturns, AfterSend, ResetTimer
<1> QED
  BY <1>1, <1>2, <1>3, <1>4, <1>5

\* What a client can do to the state the invariant is about, in the steps it
\* takes without its owner.
LEMMA ClientStepEffect ==
    ASSUME ClientTypeOK, NEW c \in Clients, ClientStep(c)
    PROVE  /\ pc[c] # "closed"
           /\ \A d \in Clients \ {c} :
                 /\ pc'[d] = pc[d] /\ done'[d] = done[d] /\ outcome'[d] = outcome[d]
                 /\ ccache'[d] = ccache[d] /\ krb5conf'[d] = krb5conf[d]
           /\ \/ /\ pc'[c] # "closed"
                 /\ done' = done /\ ccache' = ccache /\ krb5conf' = krb5conf
              \/ pc[c] = "stopTimer" /\ pc'[c] = "closed" /\ ~done'[c]
           /\ pc'[c] \in LogoutSteps => (done[c] \/ pc[c] \in LogoutSteps)
           /\ \/ pc'[c] = pc[c]
              \/ <<pc[c], pc'[c]>> \in {<<"select", "loggingIn">>,
                                        <<"login", "loginWait">>,
                                        <<"loginWait", "loginResult">>}
              \/ done[c]
              \/ pc[c] \in LogoutSteps
           /\ pc'[c] = "loginResult" /\ outcome'[c] \in {"ok", "unparsed"} =>
                 \/ session'
                 \/ pc[c] = "loginResult" /\ outcome'[c] = outcome[c]
           /\ session => (session' \/ pc[c] = "logoutWait")
<1> USE DEF ClientTypeOK, LogoutSteps, Steps, Sends
<1>1. CASE TimerFires(c)
  BY <1>1 DEF TimerFires
<1>2. CASE TimerCase(c)
  BY <1>2 DEF TimerCase
<1>3. CASE DoneCase(c)
  BY <1>3 DEF DoneCase
<1>4. CASE SendAborts(c)
  BY <1>4 DEF SendAborts, SendReturns, AfterSend
<1>5. CASE LoginStarts(c)
  BY <1>5 DEF LoginStarts, RequestStarts
<1>6. CASE LoginReturns(c)
  <2>1. PICK o \in {"ok", "unparsed", "failed"} : LoginEnds(c, o) /\ (o = "failed" \/ session')
    BY <1>6, Zenon DEF LoginReturns, LoginOK, LoginUnparsed, LoginFailed
  <2>2. session => session'
    BY <1>6, Zenon DEF LoginReturns, LoginOK, LoginUnparsed, LoginFailed
  <2>3. /\ pc[c] = "loginWait" /\ pc'[c] = "loginResult" /\ outcome'[c] = o
        /\ \A d \in Clients \ {c} : pc'[d] = pc[d] /\ outcome'[d] = outcome[d]
        /\ UNCHANGED <<done, ccache, krb5conf>>
    BY <2>1 DEF LoginEnds
  <2>4. outcome'[c] \in {"ok", "unparsed"} => session'
    BY <2>1, <2>3
  <2>5. /\ pc[c] # "closed" /\ pc'[c] # "closed"
        /\ pc'[c] \notin LogoutSteps
        /\ <<pc[c], pc'[c]>> = <<"loginWait", "loginResult">>
    BY <2>3
  <2> QED
    BY <2>2, <2>3, <2>4, <2>5
<1>7. CASE LogoutStarts(c)
  BY <1>7 DEF LogoutStarts, RequestStarts
<1>8. CASE LogoutEnds(c)
  BY <1>8 DEF LogoutEnds
<1>9. CASE Closes(c)
  BY <1>9 DEF Closes, KeepAlives
<1> QED
  BY <1>1, <1>2, <1>3, <1>4, <1>5, <1>6, <1>7, <1>8, <1>9 DEF ClientStep

-----------------------------------------------------------------------------
(* The client on its own *)

\* No step of a client or its owner takes a variable out of its type.
LEMMA ClientNextType == ClientTypeOK /\ [ClientNext]_clientVars => ClientTypeOK'
<1> SUFFICES ASSUME ClientTypeOK, [ClientNext]_clientVars PROVE ClientTypeOK'
  OBVIOUS
<1>1. CASE UNCHANGED clientVars
  BY <1>1 DEF clientVars, ClientTypeOK
<1>2. ASSUME NEW c \in Clients, ClientStep(c) \/ OwnerStep(c) \/ Receives(c)
      PROVE  ClientTypeOK'
  BY <1>2, ClientStepType, OwnerCallType DEF OwnerStep, Receives
<1> QED
  BY <1>1, <1>2 DEF ClientNext

\* Whatever its owner does, a client keeps the types of its variables.
THEOREM ClientTypeCorrect == ClientSafe => []ClientTypeOK
  BY ClientInitType, ClientNextType, PTL DEF ClientSafe

\* Where the goroutine waits in select, and on its whole way out, its timer has a
\* tick to come: there is a next login, and nothing to block the end on.
THEOREM TimerIsPending == ClientSafe => []TimerPending
<1> USE DEF TimerPending, LogoutSteps
<1>1. ClientInit => TimerPending
  BY DEF ClientInit
<1>2. ClientTypeOK /\ TimerPending /\ [ClientNext]_clientVars => TimerPending'
  <2> SUFFICES ASSUME ClientTypeOK, TimerPending, [ClientNext]_clientVars
               PROVE  TimerPending'
    OBVIOUS
  <2> USE DEF ClientTypeOK
  <2>1. CASE UNCHANGED clientVars
    BY <2>1 DEF clientVars
  <2>2. ASSUME NEW c \in Clients, ClientStep(c) PROVE TimerPending'
    <3>1. CASE TimerFires(c) \/ TimerCase(c) \/ DoneCase(c)
      BY <3>1 DEF TimerFires, TimerCase, DoneCase
    <3>2. CASE SendAborts(c)
      BY <3>2 DEF SendAborts, SendReturns, AfterSend, Sends, ResetTimer
    <3>3. CASE LoginReturns(c)
      BY <3>3 DEF LoginReturns, LoginOK, LoginUnparsed, LoginFailed, LoginEnds
    <3>4. CASE LoginStarts(c) \/ LogoutStarts(c) \/ LogoutEnds(c) \/ Closes(c)
      BY <3>4 DEF LoginStarts, LogoutStarts, RequestStarts, LogoutEnds, Closes
    <3> QED
      BY <2>2, <3>1, <3>2, <3>3, <3>4 DEF ClientStep
  <2>3. ASSUME NEW c \in Clients, OwnerStep(c) PROVE TimerPending'
    BY <2>3 DEF OwnerStep, StartNewClient, CloseDone, SetCCache, SetKrb5Conf
  <2>4. ASSUME NEW c \in Clients, Receives(c) PROVE TimerPending'
    BY <2>4 DEF Receives, SendReturns, AfterSend, Sends, ResetTimer
  <2> QED
    BY <2>1, <2>2, <2>3, <2>4 DEF ClientNext
<1> QED
  BY <1>1, <1>2, ClientTypeCorrect, PTL DEF ClientSafe

-----------------------------------------------------------------------------
(* The wait for the next login *)

\* A duration that fits is what the code computes.
LEMMA WrapFits == ASSUME NEW d \in Nat, Fits(d) PROVE Wrap(d) = d
<1> DEFINE m == MaxDuration + 1
<1>1. m \in Nat /\ m > 0 /\ d + m \in 0..(2 * m - 1)
  BY DEF Fits
<1>2. ASSUME NEW n \in Nat, n > 0, NEW x \in 0..(n - 1) PROVE x % n = x
  BY <1>2
<1>3. 2 * m \in Nat /\ 2 * m > 0
  BY <1>1
<1>4. (d + m) % (2 * m) = d + m
  BY <1>1, <1>2, <1>3
<1> QED
  BY <1>1, <1>4 DEF Wrap

\* Why the wait fits: it was set when the outcome became known, before the goroutine
\* came back to select, and a new client has no outcome.
WaitInv ==
    \A c \in Clients :
        /\ pc[c] = "closed" => outcome[c] = "none"
        /\ pc[c] = "select" /\ outcome[c] = "ok" => period[c] = Minutes(keepAlive[c])
        /\ pc[c] = "select" /\ outcome[c] = "failed" => period[c] = Seconds(RetryTimer)

\* A result that is sent, and no other step, brings a client to its select again.
LEMMA WaitStep == ClientTypeOK /\ WaitInv /\ [ClientNext]_clientVars => WaitInv'
<1> SUFFICES ASSUME ClientTypeOK, WaitInv, [ClientNext]_clientVars PROVE WaitInv'
  OBVIOUS
<1> USE DEF ClientTypeOK, WaitInv
<1>1. CASE UNCHANGED clientVars
  BY <1>1 DEF clientVars
<1>2. ASSUME NEW c \in Clients, SendReturns(c) PROVE WaitInv'
  <2>1. CASE pc[c] = "loginResult"
    BY <1>2, <2>1 DEF SendReturns, AfterSend, Sends, ResetTimer
  <2>2. CASE pc[c] # "loginResult"
    BY <1>2, <2>2 DEF SendReturns, AfterSend, Sends
  <2> QED
    BY <2>1, <2>2
<1>3. ASSUME NEW c \in Clients, ClientStep(c) PROVE WaitInv'
  <2>1. CASE TimerFires(c) \/ TimerCase(c) \/ DoneCase(c)
    BY <2>1 DEF TimerFires, TimerCase, DoneCase
  <2>2. CASE SendAborts(c)
    BY <2>2, <1>2 DEF SendAborts
  <2>3. CASE LoginReturns(c)
    <3>1. PICK o \in {"ok", "unparsed", "failed"} :
             /\ LoginEnds(c, o)
             /\ \A d \in Clients \ {c} : keepAlive'[d] = keepAlive[d]
      BY <2>3 DEF LoginReturns, LoginOK, LoginUnparsed, LoginFailed
    <3> QED
      BY <3>1 DEF LoginEnds
  <2>4. CASE LoginStarts(c) \/ LogoutStarts(c) \/ LogoutEnds(c)
    BY <2>4 DEF LoginStarts, LogoutStarts, RequestStarts, LogoutEnds
  <2>5. CASE Closes(c)
    BY <2>5 DEF Closes
  <2> QED
    BY <1>3, <2>1, <2>2, <2>3, <2>4, <2>5 DEF ClientStep
<1>4. ASSUME NEW c \in Clients, OwnerStep(c) PROVE WaitInv'
  BY <1>4 DEF OwnerStep, StartNewClient, CloseDone, SetCCache, SetKrb5Conf
<1> QED
  BY <1>1, <1>2, <1>3, <1>4 DEF ClientNext, Receives

\* Whatever keep-alive is configured or served: a client waits as long as it was
\* asked to after a success and as long as configured after an error, when that
\* fits a duration.
THEOREM WaitIsAsAsked == ClientSafe => []WaitFitsOutcome
<1>1. ClientInit => WaitInv
  BY DEF ClientInit, WaitInv
<1>2. ClientTypeOK /\ WaitInv => WaitFitsOutcome
  <2> SUFFICES ASSUME ClientTypeOK, WaitInv, NEW c \in Clients, pc[c] = "select"
               PROVE  /\ outcome[c] = "ok" /\ Fits(60 * keepAlive[c])
                            => period[c] = 60 * keepAlive[c]
                      /\ outcome[c] = "failed" /\ Fits(RetryTimer)
                            => period[c] = RetryTimer
    BY DEF WaitFitsOutcome
  <2>1. keepAlive[c] \in Nat
    <3>1. keepAlive[c] \in KeepAlives
      BY DEF ClientTypeOK
    <3>2. keepAlive[c] = KeepAlive \/ (keepAlive[c] \in Int /\ keepAlive[c] > 0)
      BY <3>1 DEF KeepAlives
    <3>3. KeepAlive \in Nat
      OBVIOUS
    <3> QED
      BY <3>2, <3>3
  <2> QED
    BY <2>1, WrapFits DEF WaitInv, Minutes, Seconds
<1> QED
  BY <1>1, <1>2, WaitStep, ClientInitType, ClientNextType, PTL DEF ClientSafe

USE AgentAssumption

-----------------------------------------------------------------------------
(* Types *)

\* startClient, the setter of the login state and stopClient keep the types.
LEMMA StartClientType ==
    ASSUME ClientTypeOK,
           NEW cl \in Clients \union {NoClient},
           NEW cc \in CCaches \union {NoCCache},
           NEW kc \in Krb5Confs \union {NoKrb5Conf},
           StartClient(cl, cc, kc)
    PROVE  /\ ClientTypeOK'
           /\ client' \in Clients \union {NoClient}
           /\ login' \in Clients \union {NoClient}
<1>1. CASE UNCHANGED clientVars /\ client' = cl /\ login' = cl
  BY <1>1 DEF clientVars, ClientTypeOK
<1>2. ASSUME NEW c \in Clients, StartNewClient(c, cc, kc), client' = c, login' = c
      PROVE  ClientTypeOK' /\ client' \in Clients /\ login' \in Clients
  BY <1>2, OwnerCallType
<1> QED
  BY <1>1, <1>2 DEF StartClient

\* setLoginState keeps the types.
LEMMA SetLoginStateType ==
    ASSUME TypeOK, NEW s \in LoginStates, SetLoginState(s)
    PROVE  loginState' \in LoginStates /\ loggedIn' \in BOOLEAN /\ shownLogin' \in BOOLEAN
<1>1. loggedIn' \in BOOLEAN
  BY DEF TypeOK, SetLoginState
<1>2. shownLogin' \in BOOLEAN
  BY <1>1 DEF TypeOK, SetLoginState
<1> QED
  BY <1>1, <1>2 DEF SetLoginState

\* stopClient keeps the types.
LEMMA StopClientType ==
    ASSUME TypeOK, NEW goal \in {"select", "exit"}, StopClient(goal)
    PROVE  /\ ClientTypeOK'
           /\ apc' \in {"select", "stopWait", "exit", "closed"}
           /\ after' \in {"select", "restart", "exit"}
           /\ client' = client /\ login' = login
           /\ loginState' \in LoginStates /\ loggedIn' \in BOOLEAN /\ shownLogin' \in BOOLEAN
<1>1. CASE BeginStop(goal)
  <2>1. client \in Clients /\ CloseDone(client) /\ SetLoginState("LoggingOut")
    BY <1>1 DEF BeginStop, TypeOK
  <2>2. ClientTypeOK'
    BY <2>1, OwnerCallType DEF TypeOK
  <2>3. loginState' \in LoginStates /\ loggedIn' \in BOOLEAN /\ shownLogin' \in BOOLEAN
    BY <2>1, SetLoginStateType DEF LoginStates
  <2> QED
    BY <1>1, <2>2, <2>3 DEF BeginStop
<1>2. CASE /\ client = NoClient /\ apc' = goal
           /\ UNCHANGED <<clientVars, after, client, login, statusVars>>
  BY <1>2 DEF TypeOK, ClientTypeOK, clientVars, statusVars
<1> QED
  BY <1>1, <1>2 DEF StopClient

\* No step of the program takes a variable out of its type.
LEMMA TypeStep == TypeOK /\ [Next]_vars => TypeOK'
<1> SUFFICES ASSUME TypeOK, [Next]_vars PROVE TypeOK'
  OBVIOUS
<1> USE DEF loopVars, credentialVars, statusVars, trustVars, envVars
<1>0. CASE UNCHANGED vars
  BY <1>0 DEF vars, clientVars, agentVars, TypeOK, ClientTypeOK
<1>1. ASSUME NEW r \in {"trusted", "untrusted"}, HandleTNDResult(r) PROVE TypeOK'
  <2> USE <1>1 DEF HandleTNDResult
  <2>1. trustedNetwork' \in BOOLEAN /\ shownTrusted' \in BOOLEAN
    BY DEF SetTrustedNetwork, TypeOK
  <2>2. CASE r = "trusted"
    BY <2>1, <2>2, StartClientType DEF TypeOK
  <2>3. CASE r = "untrusted" /\ StopClient("select")
    BY <2>1, <2>3, StopClientType DEF TypeOK
  <2> QED
    BY <2>2, <2>3
<1>2. CASE HandleLoginResult
  <2> USE <1>2 DEF HandleLoginResult
  <2>1. login \in Clients /\ Result(login) \in LoginStates
    BY DEF TypeOK, Result, LoginStates
  <2>2. ClientTypeOK'
    BY <2>1, OwnerCallType DEF TypeOK
  <2>3. loginState' \in LoginStates /\ loggedIn' \in BOOLEAN /\ shownLogin' \in BOOLEAN
    BY <2>1, SetLoginStateType
  <2>4. lastKeepAlive' \in BOOLEAN
    OBVIOUS
  <2> QED
    BY <2>2, <2>3, <2>4 DEF TypeOK
<1>3. ASSUME NEW u \in CCaches, HandleCCacheUpdate(u) PROVE TypeOK'
  <2> USE <1>3 DEF HandleCCacheUpdate
  <2>1. ClientTypeOK' /\ client' \in Clients \union {NoClient} /\ login' \in Clients \union {NoClient}
    <3>1. CASE client # NoClient /\ SetCCache(client, u) /\ UNCHANGED <<client, login>>
      BY <3>1, OwnerCallType DEF TypeOK
    <3>2. CASE StartClient(client, u, krbcfgUp)
      BY <3>2, StartClientType DEF TypeOK
    <3>3. CASE UNCHANGED <<clientVars, client, login>>
      BY <3>3 DEF TypeOK, ClientTypeOK, clientVars
    <3> QED
      BY <3>1, <3>2, <3>3
  <2>2. kerberosTGT' \in Times \union {NoTGT}
    OBVIOUS
  <2> QED
    BY <2>1, <2>2 DEF TypeOK
<1>4. ASSUME NEW u \in Krb5Confs, HandleKrbConfUpdate(u) PROVE TypeOK'
  <2> USE <1>4 DEF HandleKrbConfUpdate
  <2>1. ClientTypeOK' /\ client' \in Clients \union {NoClient} /\ login' \in Clients \union {NoClient}
    <3>1. CASE client # NoClient /\ SetKrb5Conf(client, u) /\ UNCHANGED <<client, login>>
      BY <3>1, OwnerCallType DEF TypeOK
    <3>2. CASE StartClient(client, ccacheUp, u)
      BY <3>2, StartClientType DEF TypeOK
    <3>3. CASE UNCHANGED <<clientVars, client, login>>
      BY <3>3 DEF TypeOK, ClientTypeOK, clientVars
    <3> QED
      BY <3>1, <3>2, <3>3
  <2> QED
    BY <2>1 DEF TypeOK
<1>5. ASSUME NEW k \in Callers, HandleReLogin(k) PROVE TypeOK'
  <2> USE <1>5 DEF HandleReLogin
  <2>1. CASE ~trustedNetwork
    BY <2>1 DEF TypeOK, ClientTypeOK, clientVars
  <2>2. CASE trustedNetwork /\ client # NoClient
    <3>1. CloseDone(client) /\ SetLoginState("LoggingOut") /\ client \in Clients
      BY <2>2 DEF BeginStop, TypeOK
    <3>2. ClientTypeOK'
      BY <3>1, OwnerCallType DEF TypeOK
    <3>3. loginState' \in LoginStates /\ loggedIn' \in BOOLEAN /\ shownLogin' \in BOOLEAN
      BY <3>1, SetLoginStateType DEF LoginStates
    <3> QED
      BY <2>2, <3>2, <3>3 DEF TypeOK, BeginStop
  <2>3. CASE trustedNetwork /\ client = NoClient
    BY <2>3, StartClientType DEF TypeOK
  <2> QED
    BY <2>1, <2>2, <2>3 DEF TypeOK
<1>6. CASE HandleSleepEvent
  <2> USE <1>6 DEF HandleSleepEvent
  <2>1. trustedNetwork' \in BOOLEAN /\ shownTrusted' \in BOOLEAN
    BY DEF SetTrustedNetwork, TypeOK
  <2> QED
    BY <2>1, StopClientType DEF TypeOK
<1>7. CASE HandleDone
  BY <1>7, StopClientType DEF TypeOK, HandleDone
<1>8. CASE ChannelClosed
  BY <1>8 DEF ChannelClosed, TypeOK, ClientTypeOK, clientVars
<1>9. CASE StopClientReturns
  <2> USE <1>9 DEF StopClientReturns
  <2>1. loginState' \in LoginStates /\ loggedIn' \in BOOLEAN /\ shownLogin' \in BOOLEAN
    BY SetLoginStateType DEF LoginStates
  <2>2. CASE after = "restart"
    BY <2>1, <2>2, StartClientType DEF TypeOK
  <2>3. CASE after # "restart"
    BY <2>1, <2>3 DEF TypeOK, ClientTypeOK, clientVars
  <2> QED
    BY <2>2, <2>3
<1>10. CASE Exits
  BY <1>10 DEF Exits, TypeOK, ClientTypeOK, clientVars
<1>11. CASE ClientsStep
  <2>1. ClientTypeOK'
    BY <1>11, ClientStepType DEF ClientsStep, TypeOK
  <2> QED
    BY <1>11, <2>1 DEF ClientsStep, agentVars, TypeOK
<1>12. CASE MainStep
  BY <1>12 DEF MainStep, Interrupted, SeesError, ClosesDone, ProcessExits, MainMoves,
               TypeOK, ClientTypeOK, clientVars
<1>13. CASE CallerStep
  <2>1. ASSUME NEW k \in Callers, NEW from, NEW to \in {"idle", "sending"},
               CallerMoves(k, from, to)
        PROVE  TypeOK'
    BY <2>1 DEF CallerMoves, TypeOK, ClientTypeOK, clientVars
  <2> QED
    BY <1>13, <2>1 DEF CallerStep, CallReLogin, ReLoginReturns
<1>14. CASE EnvironmentStep
  <2>1. CASE NetworkChanges
    BY <2>1 DEF NetworkChanges, TypeOK, ClientTypeOK, clientVars
  <2>2. CASE TNDProbes
    BY <2>2 DEF TNDProbes, TypeOK, ClientTypeOK, clientVars
  <2>3. CASE MonitorFails
    BY <2>3 DEF MonitorFails, TypeOK, ClientTypeOK, clientVars
  <2> QED
    BY <1>14, <2>1, <2>2, <2>3 DEF EnvironmentStep
<1>15. CASE Terminated
  BY <1>0, <1>15 DEF Terminated
<1> QED
  BY <1>0, <1>1, <1>2, <1>3, <1>4, <1>5, <1>6, <1>7, <1>8, <1>9, <1>10, <1>11,
     <1>12, <1>13, <1>14, <1>15 DEF Next, LoopStep, HandleTND

\* The program starts in a state of that type.
LEMMA InitType == Init => TypeOK
<1>1. Init => ClientTypeOK
  BY ClientInitType DEF Init
<1> QED
  BY <1>1 DEF Init, TypeOK, LoginStates

\* Each variable of the agent and its clients keeps its type: the program never
\* gets into a state or a handler that the model has no name for.
THEOREM TypeCorrect == Spec => []TypeOK
  BY InitType, TypeStep, PTL DEF Spec

-----------------------------------------------------------------------------
(* The inductive invariant *)

\* startClient and stopClient, called by a handler that the loop is in.
LEMMA StartClientStopInv ==
    ASSUME TypeOK, StopInv, apc = "select",
           UNCHANGED <<apc, failed>>,
           NEW cc, NEW kc, StartClient(client, cc, kc)
    PROVE  StopInv'
<1> USE DEF StopInv, OneLiveClient, Live
<1>1. CASE UNCHANGED clientVars /\ client' = client /\ login' = client
  BY <1>1 DEF clientVars
<1>2. ASSUME client = NoClient,
             NEW c \in Clients, StartNewClient(c, cc, kc), client' = c, login' = c
      PROVE  StopInv'
  BY <1>2 DEF StartNewClient, TypeOK, ClientTypeOK, LogoutSteps
<1> QED
  BY <1>1, <1>2 DEF StartClient

\* A client that the loop begins to stop is the only one that is told to stop.
LEMMA BeginStopStopInv ==
    ASSUME TypeOK, StopInv, apc = "select", failed' = failed,
           NEW goal, BeginStop(goal)
    PROVE  StopInv'
  BY DEF StopInv, OneLiveClient, Live, BeginStop, CloseDone, TypeOK, ClientTypeOK

\* stopClient keeps StopInv, with and without a client.
LEMMA StopClientStopInv ==
    ASSUME TypeOK, StopInv, apc = "select", failed' = failed,
           NEW goal \in {"select", "exit"}, StopClient(goal)
    PROVE  StopInv'
<1>1. CASE BeginStop(goal)
  BY <1>1, BeginStopStopInv
<1>2. CASE /\ client = NoClient /\ apc' = goal
           /\ UNCHANGED <<clientVars, after, client, login, statusVars>>
  BY <1>2 DEF StopInv, OneLiveClient, Live, clientVars
<1> QED
  BY <1>1, <1>2 DEF StopClient

\* A loop that is in "select" runs one client at most, which was not told to stop.
LEMMA StopInvStep == IInv /\ [Next]_vars => StopInv'
<1> SUFFICES ASSUME TypeOK, StopInv, [Next]_vars PROVE StopInv'
  BY DEF IInv
<1> USE DEF StopInv, OneLiveClient, Live
<1>0. CASE UNCHANGED vars
  BY <1>0 DEF vars, clientVars, agentVars, loopVars
<1>1. ASSUME NEW r \in {"trusted", "untrusted"}, HandleTNDResult(r) PROVE StopInv'
  BY <1>1, StopClientStopInv, StartClientStopInv DEF HandleTNDResult
<1>2. CASE HandleLoginResult
  BY <1>2 DEF HandleLoginResult, SendReturns, AfterSend, Sends, LogoutSteps, TypeOK, ClientTypeOK, loopVars
<1>3. ASSUME NEW u \in CCaches, HandleCCacheUpdate(u) PROVE StopInv'
  <2>1. CASE StartClient(client, u, krbcfgUp)
    BY <1>3, <2>1, StartClientStopInv DEF HandleCCacheUpdate, loopVars
  <2> QED
    BY <1>3, <2>1 DEF HandleCCacheUpdate, SetCCache, loopVars, clientVars
<1>4. ASSUME NEW u \in Krb5Confs, HandleKrbConfUpdate(u) PROVE StopInv'
  <2>1. CASE StartClient(client, ccacheUp, u)
    BY <1>4, <2>1, StartClientStopInv DEF HandleKrbConfUpdate, loopVars
  <2> QED
    BY <1>4, <2>1 DEF HandleKrbConfUpdate, SetKrb5Conf, loopVars, clientVars
<1>5. ASSUME NEW k \in Callers, HandleReLogin(k) PROVE StopInv'
  <2>1. CASE ~trustedNetwork
    BY <1>5, <2>1 DEF HandleReLogin, clientVars
  <2>2. CASE trustedNetwork /\ client # NoClient
    BY <1>5, <2>2, BeginStopStopInv DEF HandleReLogin
  <2>3. CASE trustedNetwork /\ client = NoClient
    BY <1>5, <2>3, StartClientStopInv DEF HandleReLogin
  <2> QED
    BY <2>1, <2>2, <2>3
<1>6. CASE HandleSleepEvent
  BY <1>6, StopClientStopInv DEF HandleSleepEvent
<1>7. CASE HandleDone
  BY <1>7, StopClientStopInv DEF HandleDone
<1>8. CASE ChannelClosed
  BY <1>8 DEF ChannelClosed, clientVars
<1>9. CASE StopClientReturns
  <2> USE <1>9 DEF StopClientReturns
  <2>1. Live = {} /\ (\A c \in Clients : ~done[c])
    OBVIOUS
  <2>2. CASE after = "restart"
    <3>1. CASE UNCHANGED clientVars /\ client' = NoClient /\ login' = NoClient
      BY <2>1, <2>2, <3>1 DEF clientVars
    <3>2. ASSUME NEW c \in Clients, StartNewClient(c, ccacheUp, krbcfgUp),
                 client' = c, login' = c
          PROVE  StopInv'
      BY <2>1, <2>2, <3>2 DEF StartNewClient, TypeOK, ClientTypeOK, LogoutSteps
    <3> QED
      BY <2>2, <3>1, <3>2 DEF StartClient
  <2>3. CASE after # "restart"
    BY <2>1, <2>3 DEF clientVars, TypeOK
  <2> QED
    BY <2>2, <2>3
<1>10. CASE Exits
  BY <1>10 DEF Exits, clientVars
<1>11. CASE ClientsStep
  <2>1. PICK c \in Clients : ClientStep(c)
    BY <1>11 DEF ClientsStep
  <2>2. UNCHANGED <<apc, failed, client, login>>
    BY <1>11 DEF ClientsStep, agentVars, loopVars
  <2>3. /\ c = client /\ pc[c] # "closed"
        /\ \A d \in Clients \ {c} : pc'[d] = "closed" /\ ~done'[d]
    BY <2>1, ClientStepEffect DEF TypeOK
  <2>4. pc'[c] # "closed" => done'[c] = done[c]
    BY <2>1, ClientStepEffect DEF TypeOK
  <2>5. pc'[c] = "closed" => ~done'[c] /\ apc = "stopWait"
    BY <2>1, ClientStepEffect DEF TypeOK, LogoutSteps
  <2>6. pc'[c] \in LogoutSteps => done'[c]
    BY <2>1, <2>4, ClientStepEffect DEF TypeOK, LogoutSteps
  <2>7. done'[c] => done[c]
    BY <2>4, <2>5
  <2> QED
    BY <2>2, <2>3, <2>4, <2>5, <2>6, <2>7 DEF LogoutSteps
<1>12. CASE MainStep
  BY <1>12 DEF MainStep, Interrupted, SeesError, ClosesDone, ProcessExits, MainMoves, clientVars, loopVars
<1>13. CASE CallerStep
  BY <1>13 DEF CallerStep, CallReLogin, ReLoginReturns, CallerMoves, clientVars, loopVars
<1>14. CASE EnvironmentStep
  BY <1>14 DEF EnvironmentStep, NetworkChanges, TNDProbes, MonitorFails, clientVars, loopVars
<1>15. CASE Terminated
  BY <1>0, <1>15 DEF Terminated
<1> QED
  BY <1>0, <1>1, <1>2, <1>3, <1>4, <1>5, <1>6, <1>7, <1>8, <1>9, <1>10, <1>11,
     <1>12, <1>13, <1>14, <1>15 DEF Next, LoopStep, HandleTND

\* A client that is not being stopped runs in a trusted network, and no start is
\* missed when the last of trust, ccache and krb5.conf comes.
LEMMA TrustInvStep == IInv /\ [Next]_vars => TrustInv'
<1> SUFFICES ASSUME TypeOK, StopInv, TrustInv, [Next]_vars PROVE TrustInv'
  BY DEF IInv
<1> USE DEF TrustInv, ClientWheneverPossible, credentialVars, trustVars, loopVars
<1>0. CASE UNCHANGED vars
  BY <1>0 DEF vars, agentVars
<1>1. ASSUME NEW r \in {"trusted", "untrusted"}, HandleTNDResult(r) PROVE TrustInv'
  <2>1. CASE r = "trusted"
    BY <1>1, <2>1 DEF HandleTNDResult, SetTrustedNetwork, StartClient, TypeOK
  <2>2. CASE r = "untrusted" /\ StopClient("select")
    BY <1>1, <2>2 DEF HandleTNDResult, SetTrustedNetwork, StopClient, BeginStop
  <2> QED
    BY <1>1, <2>1, <2>2 DEF HandleTNDResult
<1>2. CASE HandleLoginResult
  BY <1>2 DEF HandleLoginResult
<1>3. ASSUME NEW u \in CCaches, HandleCCacheUpdate(u) PROVE TrustInv'
  BY <1>3 DEF HandleCCacheUpdate, StartClient, TypeOK
<1>4. ASSUME NEW u \in Krb5Confs, HandleKrbConfUpdate(u) PROVE TrustInv'
  BY <1>4 DEF HandleKrbConfUpdate, StartClient, TypeOK
<1>5. ASSUME NEW k \in Callers, HandleReLogin(k) PROVE TrustInv'
  BY <1>5 DEF HandleReLogin, BeginStop, StartClient, TypeOK
<1>6. CASE HandleSleepEvent
  BY <1>6 DEF HandleSleepEvent, SetTrustedNetwork, StopClient, BeginStop
<1>7. CASE HandleDone
  BY <1>7 DEF HandleDone, StopClient, BeginStop
<1>8. CASE ChannelClosed
  BY <1>8 DEF ChannelClosed
<1>9. CASE StopClientReturns
  BY <1>9 DEF StopClientReturns, StartClient, TypeOK
<1>10. CASE Exits
  BY <1>10 DEF Exits
<1>11. CASE ClientsStep
  BY <1>11 DEF ClientsStep, agentVars
<1>12. CASE MainStep
  BY <1>12 DEF MainStep, Interrupted, SeesError, ClosesDone, ProcessExits, MainMoves
<1>13. CASE CallerStep
  BY <1>13 DEF CallerStep, CallReLogin, ReLoginReturns, CallerMoves
<1>14. CASE EnvironmentStep
  BY <1>14 DEF EnvironmentStep, NetworkChanges, TNDProbes, MonitorFails
<1>15. CASE Terminated
  BY <1>0, <1>15 DEF Terminated
<1> QED
  BY <1>0, <1>1, <1>2, <1>3, <1>4, <1>5, <1>6, <1>7, <1>8, <1>9, <1>10, <1>11,
     <1>12, <1>13, <1>14, <1>15 DEF Next, LoopStep, HandleTND

\* A client that was just started fits the login state "logged out".
LEMMA StartClientStateInv ==
    ASSUME TypeOK, StateInv, apc = "select",
           UNCHANGED <<apc, loginState>>,
           NEW cc, NEW kc, StartClient(client, cc, kc)
    PROVE  StateInv'
<1> USE DEF StateInv, StateFitsClient, LoggedInMeansSession
<1>1. CASE UNCHANGED clientVars /\ client' = client /\ login' = client
  BY <1>1 DEF clientVars
<1>2. ASSUME client = NoClient,
             NEW c \in Clients, StartNewClient(c, cc, kc), client' = c, login' = c
      PROVE  StateInv'
  BY <1>2 DEF StartNewClient, TypeOK, ClientTypeOK
<1> QED
  BY <1>1, <1>2 DEF StartClient

\* From the moment a client is told to stop, "logging out" is shown.
LEMMA BeginStopStateInv ==
    ASSUME TypeOK, StateInv, NEW goal, BeginStop(goal)
    PROVE  StateInv'
  BY DEF StateInv, StateFitsClient, LoggedInMeansSession, BeginStop, CloseDone, SetLoginState

\* stopClient keeps StateInv, with and without a client.
LEMMA StopClientStateInv ==
    ASSUME TypeOK, StateInv, apc = "select",
           NEW goal \in {"select", "exit"}, StopClient(goal)
    PROVE  StateInv'
<1>1. CASE BeginStop(goal)
  BY <1>1, BeginStopStateInv
<1>2. CASE /\ client = NoClient /\ apc' = goal
           /\ UNCHANGED <<clientVars, after, client, login, statusVars>>
  BY <1>2 DEF StateInv, StateFitsClient, LoggedInMeansSession, clientVars, statusVars
<1> QED
  BY <1>1, <1>2 DEF StopClient

\* What the loop can receive from a client that it did not tell to stop, and what
\* the client does then.
LEMMA LoginResultEffect ==
    ASSUME TypeOK, StopInv, HandleLoginResult
    PROVE  /\ client \in Clients /\ login = client
           /\ \/ /\ pc[client] = "loggingIn" /\ pc'[client] = "login"
                 /\ Result(login) = "LoggingIn"
              \/ /\ pc[client] = "loginResult" /\ pc'[client] = "select"
                 /\ \/ outcome[client] \in {"ok", "unparsed"} /\ Result(login) = "LoggedIn"
                    \/ Result(login) = "LoggedOut"
           /\ \A c \in Clients \ {client} : pc'[c] = pc[c]
           /\ UNCHANGED <<session, outcome>>
  BY DEF HandleLoginResult, SendReturns, AfterSend, Result, Sends, LogoutSteps,
         TypeOK, ClientTypeOK, StopInv

\* The login state follows the client, and a login that is shown is a session.
LEMMA StateInvStep == IInv /\ [Next]_vars => StateInv'
<1> SUFFICES ASSUME TypeOK, StopInv, StateInv, [Next]_vars PROVE StateInv'
  BY DEF IInv
<1> USE DEF StateInv, StateFitsClient, LoggedInMeansSession, loopVars, statusVars
<1>0. CASE UNCHANGED vars
  BY <1>0 DEF vars, agentVars, clientVars
<1>1. ASSUME NEW r \in {"trusted", "untrusted"}, HandleTNDResult(r) PROVE StateInv'
  <2>1. CASE r = "trusted"
    BY <1>1, <2>1, StartClientStateInv DEF HandleTNDResult
  <2>2. CASE r = "untrusted" /\ StopClient("select")
    BY <1>1, <2>2, StopClientStateInv DEF HandleTNDResult
  <2> QED
    BY <1>1, <2>1, <2>2 DEF HandleTNDResult
<1>2. CASE HandleLoginResult
  BY <1>2, LoginResultEffect DEF HandleLoginResult, SendReturns, SetLoginState, TypeOK, ClientTypeOK, StopInv
<1>3. ASSUME NEW u \in CCaches, HandleCCacheUpdate(u) PROVE StateInv'
  <2>1. CASE StartClient(client, u, krbcfgUp)
    BY <1>3, <2>1, StartClientStateInv DEF HandleCCacheUpdate
  <2> QED
    BY <1>3, <2>1 DEF HandleCCacheUpdate, SetCCache, clientVars
<1>4. ASSUME NEW u \in Krb5Confs, HandleKrbConfUpdate(u) PROVE StateInv'
  <2>1. CASE StartClient(client, ccacheUp, u)
    BY <1>4, <2>1, StartClientStateInv DEF HandleKrbConfUpdate
  <2> QED
    BY <1>4, <2>1 DEF HandleKrbConfUpdate, SetKrb5Conf, clientVars
<1>5. ASSUME NEW k \in Callers, HandleReLogin(k) PROVE StateInv'
  <2>1. CASE ~trustedNetwork
    BY <1>5, <2>1 DEF HandleReLogin, clientVars
  <2>2. CASE trustedNetwork /\ client # NoClient
    BY <1>5, <2>2, BeginStopStateInv DEF HandleReLogin
  <2>3. CASE trustedNetwork /\ client = NoClient
    BY <1>5, <2>3, StartClientStateInv DEF HandleReLogin
  <2> QED
    BY <2>1, <2>2, <2>3
<1>6. CASE HandleSleepEvent
  BY <1>6, StopClientStateInv DEF HandleSleepEvent
<1>7. CASE HandleDone
  BY <1>7, StopClientStateInv DEF HandleDone
<1>8. CASE ChannelClosed
  BY <1>8 DEF ChannelClosed, clientVars
<1>9. CASE StopClientReturns
  BY <1>9 DEF StopClientReturns, StartClient, StartNewClient, SetLoginState, clientVars, TypeOK, ClientTypeOK
<1>10. CASE Exits
  BY <1>10 DEF Exits, clientVars
<1>11. CASE ClientsStep
  <2>1. PICK c \in Clients : ClientStep(c)
    BY <1>11 DEF ClientsStep
  <2>2. UNCHANGED <<apc, client, loginState>>
    BY <1>11 DEF ClientsStep, agentVars
  <2>3. /\ c = client /\ pc[c] # "closed"
        /\ \A d \in Clients \ {c} : pc'[d] = "closed"
    BY <2>1, ClientStepEffect DEF TypeOK, StopInv, OneLiveClient, Live
  <2>4. pc[c] \in LogoutSteps => apc = "stopWait"
    BY DEF StopInv
  <2>5. loginState = "LoggedIn" => session'
    <3>1. session => (session' \/ pc[c] = "logoutWait")
      BY <2>1, ClientStepEffect DEF TypeOK
    <3>2. loginState = "LoggedIn" => session /\ pc[c] # "logoutWait"
      BY <2>4 DEF LogoutSteps
    <3> QED
      BY <3>1, <3>2
  <2>6. ASSUME pc'[c] = "loginResult", outcome'[c] \in {"ok", "unparsed"} PROVE session'
    <3>1. session' \/ (pc[c] = "loginResult" /\ outcome'[c] = outcome[c])
      BY <2>1, <2>6, ClientStepEffect DEF TypeOK
    <3>2. session => (session' \/ pc[c] = "logoutWait")
      BY <2>1, ClientStepEffect DEF TypeOK
    <3> QED
      BY <2>6, <3>1, <3>2
  <2>7. apc = "select" => \/ pc'[c] = pc[c]
                          \/ <<pc[c], pc'[c]>> \in {<<"select", "loggingIn">>,
                                                    <<"login", "loginWait">>,
                                                    <<"loginWait", "loginResult">>}
    BY <2>1, <2>4, ClientStepEffect DEF TypeOK, StopInv
  <2>8. apc = "select" =>
          /\ pc'[c] \in {"select", "loggingIn"} => loginState \in {"LoggedOut", "LoggedIn"}
          /\ pc'[c] \in {"login", "loginWait", "loginResult"} => loginState = "LoggingIn"
    BY <2>3, <2>7, NoClient \notin Clients
  <2> QED
    BY <2>2, <2>3, <2>5, <2>6, <2>8
<1>12. CASE MainStep
  BY <1>12 DEF MainStep, Interrupted, SeesError, ClosesDone, ProcessExits, MainMoves, clientVars
<1>13. CASE CallerStep
  BY <1>13 DEF CallerStep, CallReLogin, ReLoginReturns, CallerMoves, clientVars
<1>14. CASE EnvironmentStep
  BY <1>14 DEF EnvironmentStep, NetworkChanges, TNDProbes, MonitorFails, clientVars
<1>15. CASE Terminated
  BY <1>0, <1>15 DEF Terminated
<1> QED
  BY <1>0, <1>1, <1>2, <1>3, <1>4, <1>5, <1>6, <1>7, <1>8, <1>9, <1>10, <1>11,
     <1>12, <1>13, <1>14, <1>15 DEF Next, LoopStep, HandleTND

-----------------------------------------------------------------------------
(* What follows for every reachable state *)

\* The invariant that the rest of this module rests on.
THEOREM Invariant == Spec => []IInv
<1>1. Init => IInv
  <2>1. Init => TypeOK
    BY InitType
  <2> QED
    BY <2>1 DEF Init, ClientInit, IInv, StopInv, TrustInv, StateInv, OneLiveClient, Live,
                LogoutSteps, ClientWheneverPossible, StateFitsClient, LoggedInMeansSession
<1>2. IInv /\ [Next]_vars => IInv'
  BY TypeStep, StopInvStep, TrustInvStep, StateInvStep DEF IInv
<1> QED
  BY <1>1, <1>2, PTL DEF Spec

\* No second client goroutine is alive, in any interleaving of restarts, loss of
\* trust, sleep and shutdown with the steps of the client.
THEOREM OneClient == Spec => []OneLiveClient
  BY Invariant, PTL DEF IInv, StopInv

\* A client that was not told to stop has a trusted network.
THEOREM TrustedClient == Spec => []ClientOnlyWhenTrusted
<1>1. IInv => ClientOnlyWhenTrusted
  BY DEF IInv, StopInv, TrustInv, ClientOnlyWhenTrusted, OneLiveClient, Live
<1> QED
  BY <1>1, Invariant, PTL

\* The agent does not sit in a trusted network with its credentials and no client.
THEOREM NoStartMissed == Spec => []ClientWheneverPossible
  BY Invariant, PTL DEF IInv, TrustInv

\* "Logged in" is shown only while there is a session at the service.
THEOREM ShownLoginIsSession == Spec => []LoggedInMeansSession
  BY Invariant, PTL DEF IInv, StateInv

\* "Logging out" is shown exactly while a client is being stopped.
THEOREM ShownStateFits == Spec => []StateFitsClient
  BY Invariant, PTL DEF IInv, StateInv

\* An agent that is stopped has logged out and has no client left.
THEOREM StoppedAgentIsClean == Spec => []CleanExit
<1>1. IInv => CleanExit
  BY DEF IInv, TypeOK, StopInv, StateInv, StateFitsClient, CleanExit, OneLiveClient, Live
<1> QED
  BY <1>1, Invariant, PTL

-----------------------------------------------------------------------------
(* The agent as the owner of its clients *)

\* What a handler does to the clients when it starts or stops one.
LEMMA StartClientIsLegal ==
    ASSUME TypeOK, NEW cl,
           NEW cc \in CCaches \union {NoCCache}, NEW kc \in Krb5Confs \union {NoKrb5Conf},
           StartClient(cl, cc, kc)
    PROVE  [ClientNext]_clientVars
  BY DEF StartClient, ClientNext, OwnerStep

\* done is closed once, of a client that runs.
LEMMA StopClientIsLegal ==
    ASSUME TypeOK, StopInv, apc = "select", NEW goal, StopClient(goal)
    PROVE  [ClientNext]_clientVars
<1>1. CASE BeginStop(goal)
  <2>1. client \in Clients /\ pc[client] # "closed" /\ ~done[client] /\ CloseDone(client)
    BY <1>1 DEF BeginStop, StopInv, Live
  <2> QED
    BY <2>1 DEF ClientNext, OwnerStep
<1>2. CASE UNCHANGED clientVars
  BY <1>2
<1> QED
  BY <1>1, <1>2 DEF StopClient

\* Each step of the agent is one that a client, or its owner in module IdentityClient,
\* may take, or none.
LEMMA AgentStepIsLegal == IInv /\ [Next]_vars => [ClientNext]_clientVars
<1> SUFFICES ASSUME IInv, [Next]_vars PROVE [ClientNext]_clientVars
  OBVIOUS
<1>a. TypeOK /\ StopInv
  BY DEF IInv
<1>b. /\ ccacheUp \in CCaches \union {NoCCache} /\ krbcfgUp \in Krb5Confs \union {NoKrb5Conf}
      /\ apc = "select" /\ client # NoClient => client \in Clients /\ pc[client] # "closed"
  BY <1>a DEF TypeOK, StopInv, Live
<1>0. CASE UNCHANGED clientVars
  BY <1>0
<1>1. CASE HandleTND
  BY <1>1, <1>a, <1>b, StartClientIsLegal, StopClientIsLegal DEF HandleTND, HandleTNDResult
<1>2. CASE HandleLoginResult
  BY <1>2, <1>a DEF HandleLoginResult, TypeOK, ClientNext, Receives
<1>3. ASSUME NEW u \in CCaches, HandleCCacheUpdate(u) PROVE [ClientNext]_clientVars
  <2>1. CASE client # NoClient /\ SetCCache(client, u)
    BY <1>3, <1>b, <2>1 DEF HandleCCacheUpdate, ClientNext, OwnerStep
  <2>2. CASE StartClient(client, u, krbcfgUp)
    BY <1>a, <1>b, <2>2, StartClientIsLegal
  <2> QED
    BY <1>3, <2>1, <2>2 DEF HandleCCacheUpdate
<1>4. ASSUME NEW u \in Krb5Confs, HandleKrbConfUpdate(u) PROVE [ClientNext]_clientVars
  <2>1. CASE client # NoClient /\ SetKrb5Conf(client, u)
    BY <1>4, <1>b, <2>1 DEF HandleKrbConfUpdate, ClientNext, OwnerStep
  <2>2. CASE StartClient(client, ccacheUp, u)
    BY <1>a, <1>b, <2>2, StartClientIsLegal
  <2> QED
    BY <1>4, <2>1, <2>2 DEF HandleKrbConfUpdate
<1>5. ASSUME NEW k \in Callers, HandleReLogin(k) PROVE [ClientNext]_clientVars
  BY <1>5, <1>a, <1>b, StartClientIsLegal, StopClientIsLegal DEF HandleReLogin, StopClient
<1>6. CASE HandleSleepEvent \/ HandleDone
  BY <1>6, <1>a, StopClientIsLegal DEF HandleSleepEvent, HandleDone
<1>7. CASE StopClientReturns
  BY <1>7, <1>a, <1>b, StartClientIsLegal DEF StopClientReturns
<1>8. CASE ClientsStep
  BY <1>8 DEF ClientsStep, ClientNext
<1>9. CASE ChannelClosed \/ Exits \/ MainStep
  BY <1>0, <1>9 DEF ChannelClosed, Exits, MainStep, Interrupted, SeesError, ClosesDone,
                    ProcessExits, MainMoves
<1>10. CASE CallerStep \/ EnvironmentStep
  BY <1>0, <1>10 DEF CallerStep, CallReLogin, ReLoginReturns, CallerMoves, EnvironmentStep,
                     NetworkChanges, TNDProbes, MonitorFails
<1>11. CASE Terminated \/ UNCHANGED vars
  BY <1>0, <1>11 DEF Terminated, vars
<1> QED
  BY <1>1, <1>2, <1>3, <1>4, <1>5, <1>6, <1>7, <1>8, <1>9, <1>10, <1>11 DEF Next, LoopStep

\* The agent uses its clients as IdentityClient asks of an owner: it calls nothing of a
\* client that has ended, starts none that runs and stops none twice, which would close
\* a closed channel.
THEOREM AgentIsLegalOwner == Spec => ClientSafe
<1>1. Init => ClientInit
  BY DEF Init
<1> QED
  BY <1>1, AgentStepIsLegal, Invariant, PTL DEF Spec, ClientSafe

\* What holds of a client with any owner holds of the agent's: its timer cannot block
\* it, and with it the agent, in the drain at its end, and it waits as it was asked to.
THEOREM AgentClientsWait == Spec => [](TimerPending /\ WaitFitsOutcome)
  BY AgentIsLegalOwner, TimerIsPending, WaitIsAsAsked, PTL

-----------------------------------------------------------------------------
(* Notifications and credentials *)

\* The setters tell the user of each change while the notifier is open.
LEMMA SetLoginStateNotifies ==
    ASSUME TypeOK, NotificationsCurrent, NEW s \in LoginStates, SetLoginState(s),
           s = "LoggedIn" => lastKeepAlive', lastKeepAlive => lastKeepAlive',
           main' = main
    PROVE  /\ loginState' = "LoggedIn" => loggedIn' /\ lastKeepAlive'
           /\ loginState' = "LoggedOut" => ~loggedIn'
           /\ NotifierOpen' => shownLogin' = loggedIn'
  BY DEF SetLoginState, NotificationsCurrent, NotifierOpen, LoginStates, TypeOK

\* The setter of the trust notifies the user of each change.
LEMMA SetTrustedNetworkNotifies ==
    ASSUME TypeOK, NotificationsCurrent, NEW t \in BOOLEAN, SetTrustedNetwork(t),
           main' = main
    PROVE  NotifierOpen' => shownTrusted' = trustedNetwork'
  BY DEF SetTrustedNetwork, NotificationsCurrent, NotifierOpen, TypeOK

\* stopClient notifies the user of each change.
LEMMA StopClientNotifies ==
    ASSUME TypeOK, NotificationsCurrent, NEW goal \in {"select", "exit"}, StopClient(goal),
           UNCHANGED <<main, lastKeepAlive>>
    PROVE  /\ loginState' = "LoggedIn" => loggedIn' /\ lastKeepAlive'
           /\ loginState' = "LoggedOut" => ~loggedIn'
           /\ NotifierOpen' => shownLogin' = loggedIn'
<1>1. CASE BeginStop(goal)
  BY <1>1, SetLoginStateNotifies DEF BeginStop, LoginStates
<1>2. CASE /\ client = NoClient /\ apc' = goal
           /\ UNCHANGED <<clientVars, after, client, login, statusVars>>
  BY <1>2 DEF NotificationsCurrent, NotifierOpen, statusVars
<1> QED
  BY <1>1, <1>2 DEF StopClient

\* Each step of the program keeps the last notifications current.
LEMMA NotificationsStep ==
    TypeOK /\ NotificationsCurrent /\ [Next]_vars => NotificationsCurrent'
<1> SUFFICES ASSUME TypeOK, NotificationsCurrent, [Next]_vars PROVE NotificationsCurrent'
  OBVIOUS
<1> USE DEF NotificationsCurrent, NotifierOpen, statusVars, trustVars
<1>0. CASE UNCHANGED vars
  BY <1>0 DEF vars, agentVars
<1>1. ASSUME NEW r \in {"trusted", "untrusted"}, HandleTNDResult(r)
      PROVE  NotificationsCurrent'
  <2>1. NotifierOpen' => shownTrusted' = trustedNetwork'
    BY <1>1, SetTrustedNetworkNotifies DEF HandleTNDResult
  <2>2. CASE UNCHANGED statusVars
    BY <1>1, <2>1, <2>2 DEF HandleTNDResult
  <2>3. CASE StopClient("select")
    BY <1>1, <2>1, <2>3, StopClientNotifies DEF HandleTNDResult
  <2> QED
    BY <1>1, <2>2, <2>3 DEF HandleTNDResult
<1>2. CASE HandleLoginResult
  <2>1. Result(login) \in LoginStates
    BY DEF Result, LoginStates
  <2>2. /\ Result(login) = "LoggedIn" => lastKeepAlive'
        /\ lastKeepAlive => lastKeepAlive'
    BY <1>2, Zenon DEF HandleLoginResult
  <2> QED
    BY <1>2, <2>1, <2>2, SetLoginStateNotifies DEF HandleLoginResult
<1>3. ASSUME NEW u \in CCaches, HandleCCacheUpdate(u) PROVE NotificationsCurrent'
  BY <1>3 DEF HandleCCacheUpdate
<1>4. ASSUME NEW u \in Krb5Confs, HandleKrbConfUpdate(u) PROVE NotificationsCurrent'
  BY <1>4 DEF HandleKrbConfUpdate
<1>5. ASSUME NEW k \in Callers, HandleReLogin(k) PROVE NotificationsCurrent'
  <2>1. CASE UNCHANGED statusVars
    BY <1>5, <2>1 DEF HandleReLogin
  <2>2. CASE SetLoginState("LoggingOut")
    BY <1>5, <2>2, SetLoginStateNotifies DEF HandleReLogin, LoginStates
  <2> QED
    BY <1>5, <2>1, <2>2 DEF HandleReLogin, BeginStop
<1>6. CASE HandleSleepEvent
  <2>1. NotifierOpen' => shownTrusted' = trustedNetwork'
    BY <1>6, SetTrustedNetworkNotifies DEF HandleSleepEvent
  <2> QED
    BY <1>6, <2>1, StopClientNotifies DEF HandleSleepEvent
<1>7. CASE HandleDone
  BY <1>7, StopClientNotifies DEF HandleDone
<1>9. CASE StopClientReturns
  BY <1>9, SetLoginStateNotifies DEF StopClientReturns, LoginStates
<1>11. CASE ClientsStep
  BY <1>11 DEF ClientsStep, agentVars
<1>8. CASE ChannelClosed
  BY <1>8 DEF ChannelClosed
<1>10. CASE Exits
  BY <1>10 DEF Exits
<1>12. CASE MainStep
  BY <1>12 DEF MainStep, Interrupted, SeesError, ClosesDone, ProcessExits, MainMoves
<1>13. CASE CallerStep
  BY <1>13 DEF CallerStep, CallReLogin, ReLoginReturns, CallerMoves
<1>14. CASE EnvironmentStep
  BY <1>14 DEF EnvironmentStep, NetworkChanges, TNDProbes, MonitorFails
<1>15. CASE Terminated
  BY <1>0, <1>15 DEF Terminated
<1> QED
  BY <1>0, <1>1, <1>2, <1>3, <1>4, <1>5, <1>6, <1>7, <1>8, <1>9, <1>10, <1>11,
     <1>12, <1>13, <1>14, <1>15 DEF Next, LoopStep, HandleTND

\* Whatever the order of events, the last notifications tell the trust and the
\* login as they are, until the notifier is closed.
THEOREM NotificationsAreCurrent == Spec => []NotificationsCurrent
<1>1. Init => NotificationsCurrent
  BY DEF Init, NotificationsCurrent
<1> QED
  BY <1>1, NotificationsStep, TypeCorrect, PTL DEF Spec

\* A new client has the credentials of the agent.
LEMMA StartClientCredentials ==
    ASSUME TypeOK, OneLiveClient, CredentialsCurrent,
           NEW cl \in {client, NoClient}, cl = NoClient => Live = {},
           ccacheUp' = ccacheUp \/ Live = {}, krbcfgUp' = krbcfgUp \/ Live = {},
           StartClient(cl, ccacheUp', krbcfgUp')
    PROVE  \A c \in Live' : ccache'[c] = ccacheUp' /\ krb5conf'[c] = krbcfgUp'
<1> USE DEF CredentialsCurrent, Live
<1>1. CASE UNCHANGED clientVars
  BY <1>1 DEF clientVars
<1>2. ASSUME Live = {}, NEW c \in Clients, StartNewClient(c, ccacheUp', krbcfgUp')
      PROVE  \A d \in Live' : ccache'[d] = ccacheUp' /\ krb5conf'[d] = krbcfgUp'
  BY <1>2 DEF StartNewClient, TypeOK, ClientTypeOK
<1> QED
  BY <1>1, <1>2 DEF StartClient

\* Each step of the program keeps the credentials of the client current.
LEMMA CredentialsStep ==
    IInv /\ CredentialsCurrent /\ [Next]_vars => CredentialsCurrent'
<1> SUFFICES ASSUME IInv, CredentialsCurrent, [Next]_vars PROVE CredentialsCurrent'
  OBVIOUS
<1>a. /\ TypeOK /\ OneLiveClient
      /\ client = NoClient => Live = {}
  BY DEF IInv, StopInv, OneLiveClient, Live
<1> USE <1>a DEF CredentialsCurrent, credentialVars
<1>0. CASE UNCHANGED vars
  BY <1>0 DEF vars, agentVars, clientVars, Live
<1>1. ASSUME NEW r \in {"trusted", "untrusted"}, HandleTNDResult(r)
      PROVE  CredentialsCurrent'
  <2>1. CASE StartClient(client, ccacheUp, krbcfgUp)
    BY <1>1, <2>1, StartClientCredentials DEF HandleTNDResult
  <2>2. CASE StopClient("select")
    BY <1>1, <2>2 DEF HandleTNDResult, StopClient, BeginStop, CloseDone, clientVars, Live
  <2> QED
    BY <1>1, <2>1, <2>2 DEF HandleTNDResult
<1>2. CASE HandleLoginResult
  BY <1>2 DEF HandleLoginResult, SendReturns, AfterSend, Sends, Live, TypeOK, ClientTypeOK
<1>3. ASSUME NEW u \in CCaches, HandleCCacheUpdate(u) PROVE CredentialsCurrent'
  <2>1. CASE StartClient(client, u, krbcfgUp) /\ client = NoClient
    BY <1>3, <2>1, StartClientCredentials DEF HandleCCacheUpdate
  <2>2. CASE client # NoClient /\ SetCCache(client, u)
    BY <1>3, <2>2 DEF HandleCCacheUpdate, SetCCache, OneLiveClient, Live, TypeOK, ClientTypeOK
  <2>3. CASE client = NoClient /\ UNCHANGED clientVars
    BY <1>3, <2>3 DEF HandleCCacheUpdate, clientVars, Live
  <2> QED
    BY <1>3, <2>1, <2>2, <2>3 DEF HandleCCacheUpdate
<1>4. ASSUME NEW u \in Krb5Confs, HandleKrbConfUpdate(u) PROVE CredentialsCurrent'
  <2>1. CASE StartClient(client, ccacheUp, u) /\ client = NoClient
    BY <1>4, <2>1, StartClientCredentials DEF HandleKrbConfUpdate
  <2>2. CASE client # NoClient /\ SetKrb5Conf(client, u)
    BY <1>4, <2>2 DEF HandleKrbConfUpdate, SetKrb5Conf, OneLiveClient, Live, TypeOK, ClientTypeOK
  <2>3. CASE client = NoClient /\ UNCHANGED clientVars
    BY <1>4, <2>3 DEF HandleKrbConfUpdate, clientVars, Live
  <2> QED
    BY <1>4, <2>1, <2>2, <2>3 DEF HandleKrbConfUpdate
<1>5. ASSUME NEW k \in Callers, HandleReLogin(k) PROVE CredentialsCurrent'
  <2>1. CASE ~trustedNetwork
    BY <1>5, <2>1 DEF HandleReLogin, clientVars, Live
  <2>2. CASE trustedNetwork /\ client # NoClient
    BY <1>5, <2>2 DEF HandleReLogin, BeginStop, CloseDone, Live
  <2>3. CASE trustedNetwork /\ client = NoClient
    BY <1>5, <2>3, StartClientCredentials DEF HandleReLogin
  <2> QED
    BY <2>1, <2>2, <2>3
<1>6. CASE HandleSleepEvent
  BY <1>6 DEF HandleSleepEvent, StopClient, BeginStop, CloseDone, clientVars, Live
<1>7. CASE HandleDone
  BY <1>7 DEF HandleDone, StopClient, BeginStop, CloseDone, clientVars, Live
<1>9. CASE StopClientReturns
  <2>1. Live = {}
    BY <1>9 DEF StopClientReturns, OneLiveClient, Live
  <2>2. CASE StartClient(NoClient, ccacheUp, krbcfgUp)
    BY <1>9, <2>1, <2>2, StartClientCredentials DEF StopClientReturns
  <2>3. CASE UNCHANGED clientVars
    BY <1>9, <2>1, <2>3 DEF StopClientReturns, clientVars, Live
  <2> QED
    BY <1>9, <2>2, <2>3 DEF StopClientReturns
<1>11. CASE ClientsStep
  BY <1>11, ClientStepEffect DEF ClientsStep, agentVars, TypeOK, Live
<1>8. CASE ChannelClosed
  BY <1>8 DEF clientVars, Live, ChannelClosed
<1>10. CASE Exits
  BY <1>10 DEF clientVars, Live, Exits
<1>12. CASE MainStep
  BY <1>12 DEF clientVars, Live, MainStep, Interrupted, SeesError, ClosesDone, ProcessExits, MainMoves
<1>13. CASE CallerStep
  BY <1>13 DEF clientVars, Live, CallerStep, CallReLogin, ReLoginReturns, CallerMoves
<1>14. CASE EnvironmentStep
  BY <1>14 DEF clientVars, Live, EnvironmentStep, NetworkChanges, TNDProbes, MonitorFails
<1>15. CASE Terminated
  BY <1>0, <1>15 DEF Terminated
<1> QED
  BY <1>0, <1>1, <1>2, <1>3, <1>4, <1>5, <1>6, <1>7, <1>8, <1>9, <1>10, <1>11,
     <1>12, <1>13, <1>14, <1>15 DEF Next, LoopStep, HandleTND

\* The running client has the newest credentials that the agent accepted.
THEOREM CredentialsAreCurrent == Spec => []CredentialsCurrent
<1>1. Init => CredentialsCurrent
  BY DEF Init, ClientInit, CredentialsCurrent, Live
<1> QED
  BY <1>1, CredentialsStep, Invariant, PTL DEF Spec

-----------------------------------------------------------------------------
(* ReLogin and the abstract status *)

\* A ReLogin that is answered without an error restarted the client in a trusted
\* network.
THEOREM ReLoginDoesRestart == Spec => ReLoginRestarts
<1> DEFINE Restarts(k) ==
             caller[k] # "restarted" /\ caller'[k] = "restarted" =>
                /\ trustedNetwork
                /\ loginState' = "LoggedOut"
                /\ \/ client' = NoClient /\ NoCCache = ccacheUp
                   \/ client' = NoClient /\ NoKrb5Conf = krbcfgUp
                   \/ /\ client' # NoClient
                      /\ pc[client'] = "closed" /\ pc'[client'] = "select"
<1>1. ASSUME IInv, [Next]_vars, NEW k \in Callers PROVE Restarts(k)
  <2> SUFFICES ASSUME caller[k] # "restarted", caller'[k] = "restarted"
               PROVE  Restarts(k)
    OBVIOUS
  <2> USE <1>1 DEF IInv
  <2>1. StopClientReturns \/ \E j \in Callers : HandleReLogin(j)
    <3>1. caller' # caller
      OBVIOUS
    <3>2. ~ CallerStep
      BY DEF CallerStep, CallReLogin, ReLoginReturns, CallerMoves, TypeOK
    <3>3. ~ UNCHANGED vars
      BY <3>1 DEF vars, agentVars
    <3>4. /\ ~ ClientsStep
          /\ ~ MainStep
          /\ ~ EnvironmentStep
      BY <3>1 DEF ClientsStep, agentVars, MainStep, Interrupted, SeesError, ClosesDone,
                  ProcessExits, MainMoves, EnvironmentStep, NetworkChanges, TNDProbes,
                  MonitorFails
    <3>5. /\ ~ HandleTND
          /\ ~ HandleLoginResult
          /\ \A u \in CCaches : ~ HandleCCacheUpdate(u)
          /\ \A u \in Krb5Confs : ~ HandleKrbConfUpdate(u)
      BY <3>1 DEF HandleTND, HandleTNDResult, HandleLoginResult, HandleCCacheUpdate,
                  HandleKrbConfUpdate
    <3>6. ~ HandleSleepEvent /\ ~ HandleDone /\ ~ ChannelClosed /\ ~ Exits
      BY <3>1 DEF HandleSleepEvent, HandleDone, ChannelClosed, Exits
    <3> QED
      BY <3>2, <3>3, <3>4, <3>5, <3>6 DEF Next, LoopStep, Terminated
  <2>2. ASSUME NEW j \in Callers, HandleReLogin(j) PROVE Restarts(k)
    <3>1. trustedNetwork /\ client = NoClient /\ StartClient(NoClient, ccacheUp, krbcfgUp)
      BY <2>2 DEF HandleReLogin, TypeOK
    <3>2. loginState' = "LoggedOut"
      BY <2>2, <3>1 DEF HandleReLogin, StateInv, StateFitsClient, BeginStop, statusVars
    <3> QED
      BY <3>1, <3>2 DEF StartClient, StartNewClient, TypeOK, ClientTypeOK
  <2>3. CASE StopClientReturns
    <3>1. after = "restart" /\ apc = "stopWait" /\ StartClient(NoClient, ccacheUp, krbcfgUp)
      BY <2>3 DEF StopClientReturns
    <3>2. trustedNetwork /\ loginState' = "LoggedOut"
      BY <2>3, <3>1 DEF StopClientReturns, TrustInv, SetLoginState
    <3> QED
      BY <3>1, <3>2 DEF StartClient, StartNewClient, TypeOK, ClientTypeOK
  <2> QED
    BY <2>1, <2>2, <2>3
<1>2. IInv /\ [Next]_vars => [\A k \in Callers : Restarts(k)]_vars
  BY <1>1
<1> QED
  BY <1>2, Invariant, PTL DEF Spec, ReLoginRestarts

\* Each step moves the shown status as LoginStatus says, or leaves it alone.
LEMMA StatusStep == IInv /\ [Next]_vars => [Status!Next]_(Status!statusVars)
<1> SUFFICES ASSUME IInv, [Next]_vars PROVE [Status!Next]_(Status!statusVars)
  OBVIOUS
<1> USE DEF IInv, Status!statusVars, statusVars, trustVars
<1>0. CASE UNCHANGED vars
  BY <1>0 DEF vars, agentVars
<1>a. ASSUME apc = "select", client = NoClient \/ trustedNetwork,
             NEW goal, StopClient(goal), UNCHANGED trustedNetwork
      PROVE  [Status!Next]_(Status!statusVars)
  BY <1>a DEF StopClient, BeginStop, SetLoginState, StateInv, StateFitsClient,
              Status!Next, Status!BeginLogout
<1>b. ASSUME apc = "select", NEW goal, StopClient(goal), trustedNetwork' = FALSE
      PROVE  [Status!Next]_(Status!statusVars)
  <2>1. loginState # "LoggingOut" /\ (client = NoClient => loginState = "LoggedOut")
    BY <1>b DEF StateInv, StateFitsClient
  <2>2. client # NoClient => trustedNetwork
    BY <1>b DEF TrustInv
  <2>3. CASE BeginStop(goal)
    BY <1>b, <2>1, <2>2, <2>3 DEF BeginStop, SetLoginState, Status!Next, Status!LoseTrust
  <2>4. CASE client = NoClient /\ UNCHANGED statusVars
    BY <1>b, <2>1, <2>4 DEF Status!Next, Status!LoseTrust, TypeOK
  <2> QED
    BY <1>b, <2>3, <2>4 DEF StopClient
<1>1. ASSUME NEW r \in {"trusted", "untrusted"}, HandleTNDResult(r)
      PROVE  [Status!Next]_(Status!statusVars)
  <2>1. CASE r = "trusted"
    <3>1. trustedNetwork' = TRUE /\ UNCHANGED loginState
      BY <1>1, <2>1 DEF HandleTNDResult, SetTrustedNetwork
    <3>2. ~trustedNetwork => loginState = "LoggedOut"
      BY <1>1 DEF HandleTNDResult, TrustInv, StateInv, StateFitsClient
    <3> QED
      BY <3>1, <3>2 DEF Status!Next, Status!GainTrust, TypeOK
  <2>2. CASE r = "untrusted" /\ StopClient("select")
    BY <1>1, <1>b, <2>2 DEF HandleTNDResult, SetTrustedNetwork
  <2> QED
    BY <1>1, <2>1, <2>2 DEF HandleTNDResult
<1>2. CASE HandleLoginResult
  <2>1. /\ apc = "select" /\ client # NoClient /\ trustedNetwork
        /\ UNCHANGED trustedNetwork /\ loginState' = Result(login)
    BY <1>2, LoginResultEffect DEF HandleLoginResult, TrustInv, SetLoginState
  <2>2. CASE pc[client] = "loggingIn" /\ Result(login) = "LoggingIn"
    BY <2>1, <2>2 DEF StateInv, Status!Next, Status!BeginLogin
  <2>3. CASE pc[client] = "loginResult" /\ Result(login) \in {"LoggedIn", "LoggedOut"}
    BY <2>1, <2>3 DEF StateInv, Status!Next, Status!EndLogin
  <2> QED
    BY <1>2, <2>2, <2>3, LoginResultEffect
<1>3. ASSUME NEW u \in CCaches, HandleCCacheUpdate(u)
      PROVE  [Status!Next]_(Status!statusVars)
  BY <1>3 DEF HandleCCacheUpdate
<1>4. ASSUME NEW u \in Krb5Confs, HandleKrbConfUpdate(u)
      PROVE  [Status!Next]_(Status!statusVars)
  BY <1>4 DEF HandleKrbConfUpdate
<1>5. ASSUME NEW k \in Callers, HandleReLogin(k)
      PROVE  [Status!Next]_(Status!statusVars)
  BY <1>5, <1>a DEF HandleReLogin, StopClient
<1>6. CASE HandleSleepEvent
  BY <1>6, <1>b DEF HandleSleepEvent, SetTrustedNetwork
<1>7. CASE HandleDone
  BY <1>7, <1>a DEF HandleDone, TrustInv
<1>8. CASE ChannelClosed
  BY <1>8 DEF ChannelClosed
<1>9. CASE StopClientReturns
  BY <1>9 DEF StopClientReturns, SetLoginState, StateInv, StateFitsClient,
              Status!Next, Status!EndLogout
<1>10. CASE Exits
  BY <1>10 DEF Exits
<1>11. CASE ClientsStep
  BY <1>11 DEF ClientsStep, agentVars
<1>12. CASE MainStep
  BY <1>12 DEF MainStep, Interrupted, SeesError, ClosesDone, ProcessExits, MainMoves
<1>13. CASE CallerStep
  BY <1>13 DEF CallerStep, CallReLogin, ReLoginReturns, CallerMoves
<1>14. CASE EnvironmentStep
  BY <1>14 DEF EnvironmentStep, NetworkChanges, TNDProbes, MonitorFails
<1>15. CASE Terminated
  BY <1>0, <1>15 DEF Terminated
<1> QED
  BY <1>0, <1>1, <1>2, <1>3, <1>4, <1>5, <1>6, <1>7, <1>8, <1>9, <1>10, <1>11,
     <1>12, <1>13, <1>14, <1>15 DEF Next, LoopStep, HandleTND

\* The agent and its clients implement the safety part of LoginStatus.
THEOREM ImplementsStatus == Spec => StatusSafe
<1>1. Init => Status!Init
  BY DEF Init, Status!Init
<1> QED
  BY <1>1, StatusStep, Invariant, PTL DEF Spec, StatusSafe, Status!Safe

=============================================================================
