---------------------------- MODULE AgentBusProofs ----------------------------
(***************************************************************************)
(* Proofs about what the agent shows on the bus, for any clients,          *)
(* credentials, ticket times and callers.                                  *)
(***************************************************************************)
EXTENDS AgentBus, AgentProofs, SequenceTheorems

USE BusAssumption

\* The calls that are on their way, and the order of those of the status.
Calling == BusProps \union {"notify"}
Has(q, x) == \E i \in 1..Len(q) : q[i] = x
TrustFirst(q) ==
    \A i, j \in 1..Len(q) : q[i] = "LoginState" /\ q[j] = "TrustedNetwork" => j < i

BusTypeOK ==
    /\ outbox \in Seq(Calling)
    /\ spc \in {"run", "apply", "stopping", "stopped"}
    /\ next \in 1..5
    /\ props \in [BusProps -> BusValues \union {Unknown}]
    /\ offered \in BusProps \X (BusValues \union {Unknown})
    /\ update \in BusProps \X (BusValues \union {Unknown})
    /\ owner \in {"idle", "setting", "stopping", "away"}
    /\ sdone \in BOOLEAN

\* What the bus shows after the update that the service took, and after the one that
\* the agent offers.
Applied == IF spc = "apply" THEN [props EXCEPT ![update[1]] = update[2]] ELSE props
Passed == IF owner = "setting" THEN [Applied EXCEPT ![offered[1]] = offered[2]] ELSE Applied

-----------------------------------------------------------------------------
(* Calls *)

\* The properties by name.
LEMMA BusPropsAre ==
    /\ BusProps = {"TrustedNetwork", "LoginState", "LastKeepAliveAt",
                   "KerberosTGTStartTime", "KerberosTGTEndTime"}
    /\ Len(BusOrder) = 5
    /\ BusOrder[1] = "TrustedNetwork" /\ BusOrder[2] = "LoginState"
    /\ \A i \in 1..5 : BusOrder[i] \in BusProps
    /\ \A i \in 3..5 : BusOrder[i] \notin {"TrustedNetwork", "LoginState"}
<1>1. DOMAIN BusOrder = 1..5
  BY DEF BusOrder
<1>2. 1..5 = {1, 2, 3, 4, 5} /\ 3..5 = {3, 4, 5}
  OBVIOUS
<1>3. /\ BusOrder[1] = "TrustedNetwork" /\ BusOrder[2] = "LoginState"
      /\ BusOrder[3] = "LastKeepAliveAt" /\ BusOrder[4] = "KerberosTGTStartTime"
      /\ BusOrder[5] = "KerberosTGTEndTime"
      /\ Len(BusOrder) = 5
  BY DEF BusOrder
<1>4. BusProps = {BusOrder[i] : i \in 1..5}
  BY <1>1 DEF BusProps, ToSet
<1>5. BusProps = {"TrustedNetwork", "LoginState", "LastKeepAliveAt",
                  "KerberosTGTStartTime", "KerberosTGTEndTime"}
  BY <1>2, <1>3, <1>4
<1> QED
  BY <1>2, <1>3, <1>5

\* What a concatenation has, and in which order.
LEMMA ConcatHas ==
    ASSUME NEW S, NEW a \in Seq(S), NEW b \in Seq(S)
    PROVE  /\ a \o b \in Seq(S)
           /\ \A x : Has(a \o b, x) <=> Has(a, x) \/ Has(b, x)
           /\ /\ TrustFirst(a) /\ TrustFirst(b)
              /\ ~Has(a, "LoginState") \/ ~Has(b, "TrustedNetwork")
              => TrustFirst(a \o b)
<1> DEFINE c == a \o b
<1>1. /\ c \in Seq(S) /\ Len(c) = Len(a) + Len(b)
      /\ \A i \in 1..Len(c) : c[i] = IF i <= Len(a) THEN a[i] ELSE b[i - Len(a)]
  BY ConcatProperties
<1> HIDE DEF c
<1>2. Len(a) \in Nat /\ Len(b) \in Nat
  OBVIOUS
<1>3. ASSUME NEW x, Has(c, x) PROVE Has(a, x) \/ Has(b, x)
  <2>1. PICK i \in 1..Len(c) : c[i] = x
    BY <1>3 DEF Has
  <2>2. CASE i <= Len(a)
    BY <1>1, <1>2, <2>1, <2>2 DEF Has
  <2>3. CASE ~(i <= Len(a))
    BY <1>1, <1>2, <2>1, <2>3, i - Len(a) \in 1..Len(b) DEF Has
  <2> QED
    BY <2>2, <2>3
<1>4. ASSUME NEW x, Has(a, x) \/ Has(b, x) PROVE Has(c, x)
  <2>1. CASE Has(a, x)
    BY <1>1, <1>2, <2>1 DEF Has
  <2>2. CASE Has(b, x)
    <3>1. PICK i \in 1..Len(b) : b[i] = x
      BY <2>2 DEF Has
    <3>2. i + Len(a) \in 1..Len(c) /\ ~(i + Len(a) <= Len(a)) /\ (i + Len(a)) - Len(a) = i
      BY <1>1, <1>2, <3>1
    <3>3. c[i + Len(a)] = b[(i + Len(a)) - Len(a)]
      BY <1>1, <3>2
    <3> QED
      BY <3>1, <3>2, <3>3 DEF Has
  <2> QED
    BY <1>4, <2>1, <2>2
<1>5. ASSUME TrustFirst(a), TrustFirst(b), ~Has(a, "LoginState") \/ ~Has(b, "TrustedNetwork"),
             NEW i \in 1..Len(c), NEW j \in 1..Len(c),
             c[i] = "LoginState", c[j] = "TrustedNetwork"
      PROVE  j < i
  <2>1. CASE i <= Len(a) /\ j <= Len(a)
    BY <1>1, <1>2, <1>5, <2>1 DEF TrustFirst
  <2>2. CASE i > Len(a) /\ j > Len(a)
    <3>1. i - Len(a) \in 1..Len(b) /\ j - Len(a) \in 1..Len(b)
      BY <1>1, <1>2, <2>2
    <3>2. b[i - Len(a)] = "LoginState" /\ b[j - Len(a)] = "TrustedNetwork"
      BY <1>1, <1>2, <1>5, <2>2
    <3>3. j - Len(a) < i - Len(a)
      BY <1>5, <3>1, <3>2 DEF TrustFirst
    <3> QED
      BY <1>2, <3>1, <3>3
  <2>3. CASE i <= Len(a) /\ j > Len(a)
    BY <1>1, <1>2, <1>5, <2>3, j - Len(a) \in 1..Len(b) DEF Has
  <2>4. CASE i > Len(a) /\ j <= Len(a)
    BY <1>2, <2>4
  <2> QED
    BY <1>2, <2>1, <2>2, <2>3, <2>4
<1>6. c = a \o b
  BY DEF c
<1> QED
  BY <1>1, <1>3, <1>4, <1>5, <1>6 DEF TrustFirst

\* What is left after the first call was made.
LEMMA TailHas ==
    ASSUME NEW S, NEW q \in Seq(S), q # <<>>
    PROVE  /\ Tail(q) \in Seq(S) /\ Head(q) \in S
           /\ \A x : Has(q, x) => x = Head(q) \/ Has(Tail(q), x)
           /\ TrustFirst(q) => /\ TrustFirst(Tail(q))
                               /\ Head(q) = "LoginState" => ~Has(Tail(q), "TrustedNetwork")
<1> DEFINE r == Tail(q)
<1>1. /\ r \in Seq(S) /\ Head(q) = q[1] /\ Len(q) > 0 /\ Len(q) \in Nat
      /\ Len(r) = Len(q) - 1
      /\ \A i \in 1..Len(r) : r[i] = q[i + 1]
  OBVIOUS
<1> HIDE DEF r
<1>2. ASSUME NEW x, Has(q, x), x # Head(q) PROVE Has(r, x)
  <2>1. PICK i \in 1..Len(q) : q[i] = x
    BY <1>2 DEF Has
  <2>2. i - 1 \in 1..Len(r) /\ r[i - 1] = x
    BY <1>1, <1>2, <2>1
  <2> QED
    BY <2>2 DEF Has
<1>3. ASSUME TrustFirst(q), NEW i \in 1..Len(r), NEW j \in 1..Len(r),
             r[i] = "LoginState", r[j] = "TrustedNetwork"
      PROVE  j < i
  <2>1. i + 1 \in 1..Len(q) /\ j + 1 \in 1..Len(q)
    BY <1>1
  <2>2. q[i + 1] = "LoginState" /\ q[j + 1] = "TrustedNetwork"
    BY <1>1, <1>3
  <2> QED
    BY <1>3, <2>1, <2>2 DEF TrustFirst
<1>4. ASSUME TrustFirst(q), Head(q) = "LoginState", NEW j \in 1..Len(r),
             r[j] = "TrustedNetwork"
      PROVE  FALSE
  <2>1. j + 1 \in 1..Len(q) /\ q[j + 1] = "TrustedNetwork" /\ 1 \in 1..Len(q)
    BY <1>1, <1>4
  <2>2. j + 1 < 1
    BY <1>1, <1>4, <2>1 DEF TrustFirst
  <2> QED
    BY <2>2
<1>5. q[1] \in S
  BY <1>1
<1>6. r = Tail(q)
  BY DEF r
<1> QED
  BY <1>1, <1>2, <1>3, <1>4, <1>5, <1>6 DEF TrustFirst, Has

\* A handler that changes what a property shows calls its setter, and the setters of
\* the status come in the order "trust, login".
LEMMA CallsAre ==
    /\ Calls \in Seq(Calling)
    /\ TrustFirst(Calls)
    /\ kerberosTGT' # kerberosTGT =>
          Has(Calls, "KerberosTGTStartTime") /\ Has(Calls, "KerberosTGTEndTime")
    /\ trustedNetwork' # trustedNetwork => Has(Calls, "TrustedNetwork")
    /\ loginState' # loginState => Has(Calls, "LoginState")
    /\ loginState' # loginState /\ loginState' = "LoggedIn" => Has(Calls, "LastKeepAliveAt")
<1> DEFINE k == IF kerberosTGT' # kerberosTGT
                THEN <<"KerberosTGTStartTime", "KerberosTGTEndTime">> ELSE <<>>
           n == Note \o <<"TrustedNetwork">>
           t == IF trustedNetwork' # trustedNetwork THEN n ELSE <<>>
           m == IF loggedIn' # loggedIn THEN Note ELSE <<>>
           o == m \o <<"LoginState">>
           l == IF loginState' # loginState THEN o ELSE <<>>
           a == IF loginState' # loginState /\ loginState' = "LoggedIn"
                THEN <<"LastKeepAliveAt">> ELSE <<>>
<1>1. Calls = ((k \o t) \o l) \o a
  BY DEF Calls
<1>2. /\ k \in Seq(Calling) /\ TrustFirst(k) /\ ~Has(k, "LoginState")
      /\ kerberosTGT' # kerberosTGT =>
            Has(k, "KerberosTGTStartTime") /\ Has(k, "KerberosTGTEndTime")
  <2> DEFINE s == <<"KerberosTGTStartTime", "KerberosTGTEndTime">>
  <2>1. /\ s \in Seq(Calling) /\ Len(s) = 2
        /\ s[1] = "KerberosTGTStartTime" /\ s[2] = "KerberosTGTEndTime"
    BY BusPropsAre DEF Calling
  <2>2. \A i \in 1..Len(s) : s[i] # "LoginState"
    BY <2>1
  <2>3. 1 \in 1..Len(s) /\ 2 \in 1..Len(s)
    BY <2>1
  <2> HIDE DEF s
  <2>4. /\ TrustFirst(s) /\ ~Has(s, "LoginState")
        /\ Has(s, "KerberosTGTStartTime") /\ Has(s, "KerberosTGTEndTime")
    BY <2>1, <2>2, <2>3 DEF TrustFirst, Has
  <2>5. k = IF kerberosTGT' # kerberosTGT THEN s ELSE <<>>
    BY DEF s
  <2>6. <<>> \in Seq(Calling) /\ TrustFirst(<<>>) /\ ~Has(<<>>, "LoginState")
    BY DEF TrustFirst, Has
  <2> QED
    BY <2>1, <2>4, <2>5, <2>6
<1>3. /\ Note \in Seq(Calling) /\ TrustFirst(Note)
      /\ ~Has(Note, "LoginState") /\ ~Has(Note, "TrustedNetwork")
  <2>1. Note \in {<<"notify">>, <<>>}
    BY DEF Note
  <2>2. /\ <<"notify">> \in Seq(Calling) /\ TrustFirst(<<"notify">>)
        /\ ~Has(<<"notify">>, "LoginState") /\ ~Has(<<"notify">>, "TrustedNetwork")
    BY DEF Calling, TrustFirst, Has
  <2>3. /\ <<>> \in Seq(Calling) /\ TrustFirst(<<>>)
        /\ ~Has(<<>>, "LoginState") /\ ~Has(<<>>, "TrustedNetwork")
    BY DEF TrustFirst, Has
  <2> QED
    BY <2>1, <2>2, <2>3
<1>4. ASSUME NEW p \in BusProps
      PROVE  <<p>> \in Seq(Calling) /\ TrustFirst(<<p>>) /\ \A x : Has(<<p>>, x) <=> x = p
  BY DEF Calling, TrustFirst, Has
<1>e. <<>> \in Seq(Calling) /\ TrustFirst(<<>>) /\ \A x : ~Has(<<>>, x)
  BY DEF TrustFirst, Has
<1>5. /\ t \in Seq(Calling) /\ TrustFirst(t) /\ ~Has(t, "LoginState")
      /\ trustedNetwork' # trustedNetwork => Has(t, "TrustedNetwork")
  <2>1. /\ <<"TrustedNetwork">> \in Seq(Calling) /\ TrustFirst(<<"TrustedNetwork">>)
        /\ \A x : Has(<<"TrustedNetwork">>, x) <=> x = "TrustedNetwork"
    BY <1>4, BusPropsAre
  <2>2. /\ n \in Seq(Calling) /\ TrustFirst(n)
        /\ ~Has(n, "LoginState") /\ Has(n, "TrustedNetwork")
    BY <1>3, <2>1, ConcatHas
  <2> QED
    BY <1>e, <2>2
<1>6. /\ l \in Seq(Calling) /\ TrustFirst(l) /\ ~Has(l, "TrustedNetwork")
      /\ loginState' # loginState => Has(l, "LoginState")
  <2>1. /\ <<"LoginState">> \in Seq(Calling) /\ TrustFirst(<<"LoginState">>)
        /\ \A x : Has(<<"LoginState">>, x) <=> x = "LoginState"
    BY <1>4, BusPropsAre
  <2>2. m \in Seq(Calling) /\ TrustFirst(m) /\ ~Has(m, "LoginState") /\ ~Has(m, "TrustedNetwork")
    BY <1>3, <1>e
  <2>3. /\ o \in Seq(Calling) /\ TrustFirst(o)
        /\ ~Has(o, "TrustedNetwork") /\ Has(o, "LoginState")
    BY <2>1, <2>2, ConcatHas
  <2> QED
    BY <1>e, <2>3
<1>7. /\ a \in Seq(Calling) /\ TrustFirst(a) /\ ~Has(a, "TrustedNetwork")
      /\ loginState' # loginState /\ loginState' = "LoggedIn" => Has(a, "LastKeepAliveAt")
  <2>1. /\ <<"LastKeepAliveAt">> \in Seq(Calling) /\ TrustFirst(<<"LastKeepAliveAt">>)
        /\ \A x : Has(<<"LastKeepAliveAt">>, x) <=> x = "LastKeepAliveAt"
    BY <1>4, BusPropsAre
  <2> QED
    BY <1>e, <2>1
<1> HIDE DEF k, t, l, a
<1> DEFINE kt == k \o t
           ktl == kt \o l
<1>8. /\ kt \in Seq(Calling) /\ TrustFirst(kt) /\ ~Has(kt, "LoginState")
      /\ \A x : Has(kt, x) <=> Has(k, x) \/ Has(t, x)
  BY <1>2, <1>5, ConcatHas
<1>9. Calls = ktl \o a
  BY <1>1
<1> HIDE DEF kt
<1>10. /\ ktl \in Seq(Calling) /\ TrustFirst(ktl)
       /\ \A x : Has(ktl, x) <=> Has(kt, x) \/ Has(l, x)
  BY <1>6, <1>8, ConcatHas
<1> HIDE DEF ktl
<1>11. /\ ktl \o a \in Seq(Calling) /\ TrustFirst(ktl \o a)
       /\ \A x : Has(ktl \o a, x) <=> Has(ktl, x) \/ Has(a, x)
  BY <1>7, <1>10, ConcatHas
<1> QED
  BY <1>2, <1>5, <1>6, <1>7, <1>8, <1>9, <1>10, <1>11

-----------------------------------------------------------------------------
(* The agent's part *)

\* The steps that neither the service nor the setters see.
Aside ==
    UNCHANGED <<busVars, clientVars, apc, trustedNetwork, loginState, lastKeepAlive,
                kerberosTGT>>

\* The kinds of steps.
LEMMA BusStepKinds ==
    ASSUME [BusNext]_allVars
    PROVE  \/ Handles \/ NotifyReturns \/ Publishes \/ StopsService \/ LoopCloses
           \/ ClientsGo \/ ServiceGoes \/ Aside
<1> USE DEF Aside
<1>1. CASE UNCHANGED allVars
  BY <1>1 DEF allVars, vars, agentVars, loopVars, credentialVars, statusVars, trustVars
<1>2. CASE Terminated /\ UNCHANGED busVars
  BY <1>2 DEF Terminated, vars, agentVars, loopVars, credentialVars, statusVars, trustVars
<1>3. CASE CallersGo
  BY <1>3 DEF CallersGo, CallReLogin, ReLoginReturns, CallerMoves, loopVars,
              credentialVars, statusVars, trustVars
<1>4. CASE (MainStep \/ EnvironmentStep) /\ UNCHANGED busVars
  BY <1>4 DEF MainStep, Interrupted, SeesError, ClosesDone, ProcessExits, MainMoves,
              EnvironmentStep, NetworkChanges, TNDProbes, MonitorFails, loopVars,
              credentialVars, statusVars, trustVars
<1> QED
  BY <1>1, <1>2, <1>3, <1>4 DEF BusNext

\* A handler with its calls is one of module Agent.
LEMMA HandlesIsLoopStep ==
    ASSUME Handles
    PROVE  LoopStep /\ Ready /\ outbox' = Calls /\ UNCHANGED serviceVars
  BY DEF Handles, Handle, LoopStep

\* For the agent and its clients, a step of the service or of a setter is none.
LEMMA BusStepIsStep == [BusNext]_allVars => [Next]_vars
<1> SUFFICES ASSUME [BusNext]_allVars PROVE [Next]_vars
  OBVIOUS
<1>1. CASE UNCHANGED allVars
  BY <1>1 DEF allVars
<1>2. CASE Terminated /\ UNCHANGED busVars
  BY <1>2 DEF Next
<1>3. CASE main # "exited" /\ Handles
  BY <1>3, HandlesIsLoopStep DEF Next
<1>4. CASE NotifyReturns \/ Publishes \/ StopsService \/ ServiceGoes
  BY <1>4 DEF NotifyReturns, Publishes, StopsService, ServiceGoes
<1>5. CASE main # "exited" /\ LoopCloses
  BY <1>5 DEF LoopCloses, Next, LoopStep
<1>6. CASE main # "exited" /\ ClientsGo
  BY <1>6 DEF ClientsGo, ClientGoes, Next, ClientsStep
<1>7. CASE main # "exited" /\ CallersGo
  BY <1>7 DEF CallersGo, Next, CallerStep
<1>8. CASE main # "exited" /\ (MainStep \/ EnvironmentStep)
  BY <1>8 DEF Next
<1> QED
  BY <1>1, <1>2, <1>3, <1>4, <1>5, <1>6, <1>7, <1>8 DEF BusNext

\* The agent on the bus is the one of module Agent: the calls of its setters, a desktop
\* that does not answer and the service delay its steps and allow no other.
THEOREM BusRunsAgent == BusSpec => Spec
<1>1. BusInit => Init
  BY DEF BusInit
<1> QED
  BY <1>1, BusStepIsStep, PTL DEF BusSpec, Spec

\* The time of the last keep-alive is set with a change of the login state.
LEMMA KeepAliveFollows ==
    ASSUME IInv, LoopStep
    PROVE  lastKeepAlive' = lastKeepAlive \/ (loginState' = "LoggedIn" /\ loginState # "LoggedIn")
<1>1. CASE HandleLoginResult
  <2>1. TypeOK /\ StopInv
    BY DEF IInv
  <2>2. CASE pc[client] = "loggingIn" /\ Result(login) = "LoggingIn"
    <3>1. lastKeepAlive \in BOOLEAN
      BY <2>1 DEF TypeOK
    <3> QED
      BY <1>1, <2>2, <3>1 DEF HandleLoginResult
  <2>3. CASE /\ pc[client] = "loginResult" /\ client \in Clients
             /\ Result(login) \in {"LoggedIn", "LoggedOut"}
    <3>1. loginState = "LoggingIn"
      <4>1. apc = "select" /\ client # NoClient
        BY <1>1, <2>3, AgentAssumption DEF HandleLoginResult
      <4> QED
        BY <2>3, <4>1 DEF IInv, StateInv
    <3>2. loginState' = Result(login) /\ lastKeepAlive \in BOOLEAN
      BY <1>1, <2>1 DEF HandleLoginResult, SetLoginState, TypeOK
    <3> QED
      BY <1>1, <2>3, <3>1, <3>2 DEF HandleLoginResult
  <2> QED
    BY <1>1, <2>1, <2>2, <2>3, LoginResultEffect
<1>2. CASE HandleTND \/ HandleSleepEvent \/ HandleDone \/ ChannelClosed
  BY <1>2 DEF HandleTND, HandleTNDResult, HandleSleepEvent, HandleDone, ChannelClosed
<1>3. CASE \/ \E u \in CCaches : HandleCCacheUpdate(u)
           \/ \E u \in Krb5Confs : HandleKrbConfUpdate(u)
           \/ \E k \in Callers : HandleReLogin(k)
  BY <1>3 DEF HandleCCacheUpdate, HandleKrbConfUpdate, HandleReLogin
<1>4. CASE StopClientReturns \/ Exits
  BY <1>4 DEF StopClientReturns, Exits
<1> QED
  BY <1>1, <1>2, <1>3, <1>4 DEF LoopStep

\* A handler changes no property that it does not call a setter for.
LEMMA HandlerCalls ==
    ASSUME IInv, Handles
    PROVE  \A p \in BusProps : Shown'[p] = Shown[p] \/ Has(outbox', p)
<1>1. LoopStep /\ outbox' = Calls
  BY HandlesIsLoopStep
<1>2. lastKeepAlive' = lastKeepAlive \/ (loginState' = "LoggedIn" /\ loginState # "LoggedIn")
  BY <1>1, KeepAliveFollows
<1>3. /\ Shown'["TrustedNetwork"] = Shown["TrustedNetwork"] \/ trustedNetwork' # trustedNetwork
      /\ Shown'["LoginState"] = Shown["LoginState"] \/ loginState' # loginState
      /\ Shown'["LastKeepAliveAt"] = Shown["LastKeepAliveAt"] \/ lastKeepAlive' # lastKeepAlive
      /\ \A p \in {"KerberosTGTStartTime", "KerberosTGTEndTime"} :
            Shown'[p] = Shown[p] \/ kerberosTGT' # kerberosTGT
  BY BusPropsAre DEF Shown
<1> QED
  BY <1>1, <1>2, <1>3, CallsAre, BusPropsAre

-----------------------------------------------------------------------------
(* Types, and where the loop and the service are *)

\* The setters and the service keep their types.
LEMMA BusTypeStep ==
    TypeOK /\ BusTypeOK /\ [BusNext]_allVars => BusTypeOK'
<1> SUFFICES ASSUME TypeOK, BusTypeOK, [BusNext]_allVars PROVE BusTypeOK'
  OBVIOUS
<1> USE DEF BusTypeOK, busVars, serviceVars
<1>1. CASE Handles
  BY <1>1, HandlesIsLoopStep, CallsAre
<1>2. CASE NotifyReturns
  BY <1>2, TailHas DEF NotifyReturns
<1>3. CASE Publishes
  <2>1. Head(outbox) \in BusProps /\ outbox' \in Seq(Calling)
    <3>1. Head(outbox) \in Calling /\ Tail(outbox) \in Seq(Calling)
      BY <1>3, TailHas DEF Publishes
    <3> QED
      BY <1>3, <3>1 DEF Publishes, Calling
  <2>2. Shown[Head(outbox)] \in BusValues \union {Unknown}
    BY <2>1 DEF Shown, BusValues, TypeOK
  <2> QED
    BY <1>3, <2>1, <2>2 DEF Publishes, Service!SetProperty
<1>4. CASE StopsService
  BY <1>4 DEF StopsService, Service!Stop
<1>5. CASE LoopCloses \/ ClientsGo \/ Aside
  BY <1>5 DEF LoopCloses, ClientsGo, ClientGoes, Aside
<1>6. CASE ServiceGoes
  <2>1. Service!NoUpdate \in BusProps \X (BusValues \union {Unknown})
    BY BusPropsAre DEF Service!NoUpdate
  <2>2. CASE Service!TakesUpdate
    BY <1>6, <2>1, <2>2 DEF ServiceGoes, Service!TakesUpdate
  <2>3. CASE Service!DoneCase
    BY <1>6, <2>3 DEF ServiceGoes, Service!DoneCase
  <2>4. CASE Service!SetMust
    <3>1. /\ props' = [props EXCEPT ![Service!Signal[1]] = Service!Signal[2]]
          /\ update' = Service!NoUpdate
          /\ UNCHANGED <<outbox, offered, sdone>>
      BY <1>6, <2>4 DEF ServiceGoes, Service!SetMust
    <3>2. Service!Signal[2] \in BusValues \union {Unknown}
      BY <2>4, BusPropsAre DEF Service!SetMust, Service!Signal
    <3>3. props' \in [BusProps -> BusValues \union {Unknown}]
      BY <3>1, <3>2
    <3>4. /\ spc' \in {"run", "apply", "stopping", "stopped"}
          /\ next' \in 1..5
          /\ owner' \in {"idle", "setting", "stopping", "away"}
      BY <2>4, BusPropsAre DEF Service!SetMust
    <3> QED
      BY <2>1, <3>1, <3>3, <3>4
  <2> QED
    BY <1>6, <2>2, <2>3, <2>4 DEF ServiceGoes
<1> QED
  BY <1>1, <1>2, <1>3, <1>4, <1>5, <1>6, BusStepKinds

\* The loop and the service agree on where they are: the service stops when the loop
\* waits for it, with no call left.
PlaceInv ==
    /\ spc \in {"run", "apply"} \/ owner \in {"stopping", "away"}
    /\ owner = "away" <=> spc = "stopped"
    /\ sdone <=> owner \in {"stopping", "away"}
    /\ owner \in {"stopping", "away"} => outbox = <<>> /\ apc \in {"exit", "closed"}
    /\ apc = "closed" => spc = "stopped"
    /\ spc # "stopping" => next = 1

\* A handler runs in select, or when it has waited for the client.
LEMMA HandlesWhere ==
    ASSUME Handles
    PROVE  apc \in {"select", "stopWait"} /\ apc' # "closed"
  BY DEF Handles, Handle, HandleTND, HandleTNDResult, HandleLoginResult, HandleCCacheUpdate,
         HandleKrbConfUpdate, HandleReLogin, HandleSleepEvent, HandleDone, ChannelClosed,
         StopClientReturns, StopClient, BeginStop, loopVars

\* Each step keeps them in agreement.
LEMMA PlaceStep ==
    BusTypeOK /\ PlaceInv /\ [BusNext]_allVars => PlaceInv'
<1> SUFFICES ASSUME BusTypeOK, PlaceInv, [BusNext]_allVars PROVE PlaceInv'
  OBVIOUS
<1> USE DEF PlaceInv, BusTypeOK, busVars, serviceVars
<1>1. CASE Handles
  BY <1>1, HandlesIsLoopStep, HandlesWhere DEF Ready
<1>2. CASE NotifyReturns
  BY <1>2 DEF NotifyReturns, vars, agentVars, loopVars
<1>3. CASE Publishes
  BY <1>3 DEF Publishes, Service!SetProperty, vars, agentVars, loopVars
<1>4. CASE StopsService
  BY <1>4 DEF StopsService, Service!Stop, Ready, vars, agentVars, loopVars
<1>5. CASE LoopCloses
  BY <1>5 DEF LoopCloses, Exits
<1>6. CASE ClientsGo \/ Aside
  BY <1>6 DEF ClientsGo, ClientGoes, Aside, agentVars, loopVars
<1>7. CASE ServiceGoes
  <2>1. UNCHANGED <<outbox, apc>>
    BY <1>7 DEF ServiceGoes, vars, agentVars, loopVars
  <2>2. CASE Service!TakesUpdate
    BY <2>1, <2>2 DEF Service!TakesUpdate
  <2>3. CASE Service!DoneCase
    BY <2>1, <2>3 DEF Service!DoneCase
  <2>4. CASE Service!SetMust
    BY <2>1, <2>4, BusPropsAre DEF Service!SetMust
  <2> QED
    BY <1>7, <2>2, <2>3, <2>4 DEF ServiceGoes
<1> QED
  BY <1>1, <1>2, <1>3, <1>4, <1>5, <1>6, <1>7, BusStepKinds

-----------------------------------------------------------------------------
(* What is on its way to the bus *)

\* A property that does not show what the agent has is on its way: the update is
\* taken or offered, or its setter is still to come.
PassInv ==
    /\ TrustFirst(outbox)
    /\ owner = "setting" => offered[2] = Shown[offered[1]]
    /\ spc \in {"run", "apply"} => \A p \in BusProps : Has(outbox, p) \/ Passed[p] = Shown[p]

\* Only handlers change what is to be shown.
LEMMA OthersShow ==
    ASSUME [BusNext]_allVars, ~Handles
    PROVE  Shown' = Shown
<1>1. UNCHANGED <<trustedNetwork, loginState, lastKeepAlive, kerberosTGT>>
  <2>1. CASE NotifyReturns \/ Publishes \/ StopsService \/ ServiceGoes
    BY <2>1 DEF NotifyReturns, Publishes, StopsService, ServiceGoes, vars, agentVars,
                credentialVars, statusVars, trustVars
  <2>2. CASE LoopCloses
    BY <2>2 DEF LoopCloses, Exits, credentialVars, statusVars, trustVars
  <2>3. CASE ClientsGo
    BY <2>3 DEF ClientsGo, ClientGoes, agentVars, credentialVars, statusVars, trustVars
  <2>4. CASE Aside
    BY <2>4 DEF Aside
  <2> QED
    BY <2>1, <2>2, <2>3, <2>4, BusStepKinds
<1> QED
  BY <1>1 DEF Shown

\* What the service does with an update: it takes it, sets it, and the bus gets to
\* what the agent has passed.
LEMMA ServicePasses ==
    ASSUME BusTypeOK, PlaceInv, ServiceGoes, spc' \in {"run", "apply"}
    PROVE  /\ spc \in {"run", "apply"}
           /\ Passed' = Passed
           /\ owner' = "setting" => owner = "setting" /\ offered' = offered
           /\ \/ spc = "run" /\ owner = "setting" /\ props' = props /\ Applied' = Passed
              \/ spc = "apply" /\ props' = Applied /\ Applied' = Applied
<1> USE DEF BusTypeOK
<1>1. CASE Service!TakesUpdate
  BY <1>1 DEF Service!TakesUpdate, Applied, Passed
<1>2. CASE Service!SetMust
  <2>1. spc = "apply" /\ spc' = "run" /\ owner' = owner /\ offered' = offered
    BY <1>2 DEF Service!SetMust, PlaceInv
  <2>2. props' = Applied
    BY <1>2, <2>1 DEF Service!SetMust, Service!Signal, Applied
  <2> QED
    BY <2>1, <2>2 DEF Applied, Passed
<1>3. CASE Service!DoneCase
  BY <1>3 DEF Service!DoneCase
<1> QED
  BY <1>1, <1>2, <1>3 DEF ServiceGoes

\* A setter passes its property on.
LEMMA PublishPasses ==
    ASSUME BusTypeOK, Publishes
    PROVE  /\ Head(outbox) \in BusProps /\ owner = "idle"
           /\ Passed = Applied
           /\ UNCHANGED <<spc, props>> /\ Applied' = Applied
           /\ owner' = "setting" /\ offered' = <<Head(outbox), Shown[Head(outbox)]>>
           /\ Passed' = [Applied EXCEPT ![Head(outbox)] = Shown[Head(outbox)]]
<1>1. Head(outbox) \in BusProps
  BY TailHas DEF BusTypeOK, Publishes, Calling
<1> QED
  BY <1>1 DEF Publishes, Service!SetProperty, Applied, Passed

\* The published and the passed properties are functions.
LEMMA PassedType ==
    ASSUME BusTypeOK
    PROVE  /\ Applied \in [BusProps -> BusValues \union {Unknown}]
           /\ Passed \in [BusProps -> BusValues \union {Unknown}]
<1>1. Applied \in [BusProps -> BusValues \union {Unknown}]
  BY DEF BusTypeOK, Applied
<1> QED
  BY <1>1 DEF BusTypeOK, Passed

\* Each step keeps what is to be shown on its way.
LEMMA PassStep ==
    IInv /\ BusTypeOK /\ PlaceInv /\ PassInv /\ [BusNext]_allVars => PassInv'
<1> SUFFICES ASSUME IInv, BusTypeOK, PlaceInv, PassInv, [BusNext]_allVars PROVE PassInv'
  OBVIOUS
<1>a. outbox \in Seq(Calling)
  BY DEF BusTypeOK
<1>1. CASE Handles
  <2>1. Ready /\ outbox' = Calls /\ UNCHANGED serviceVars
    BY <1>1, HandlesIsLoopStep
  <2>2. TrustFirst(outbox') /\ owner' # "setting"
    BY <2>1, CallsAre DEF Ready, serviceVars
  <2>3. spc' = spc /\ Passed' = Passed
    BY <2>1 DEF serviceVars, Passed, Applied
  <2>4. \A p \in BusProps : Shown'[p] = Shown[p] \/ Has(outbox', p)
    BY <1>1, HandlerCalls
  <2>5. \A p \in BusProps : ~Has(outbox, p)
    BY <2>1 DEF Ready, Has
  <2> QED
    BY <2>2, <2>3, <2>4, <2>5 DEF PassInv
<1>b. ASSUME ~Handles PROVE Shown' = Shown
  BY <1>b, OthersShow
<1>2. CASE NotifyReturns /\ ~Handles
  <2>1. /\ outbox # <<>> /\ Head(outbox) = "notify" /\ outbox' = Tail(outbox)
        /\ UNCHANGED serviceVars
    BY <1>2 DEF NotifyReturns
  <2>2. UNCHANGED <<spc, owner, offered>> /\ Passed' = Passed
    BY <2>1 DEF serviceVars, Passed, Applied
  <2>3. "notify" \notin BusProps
    BY BusPropsAre
  <2> QED
    BY <1>2, <1>a, <1>b, <2>1, <2>2, <2>3, TailHas DEF PassInv
<1>3. CASE Publishes /\ ~Handles
  <2>1. outbox # <<>> /\ outbox' = Tail(outbox)
    BY <1>3 DEF Publishes
  <2>2. ASSUME NEW p \in BusProps, spc \in {"run", "apply"}
        PROVE  Has(outbox', p) \/ Passed'[p] = Shown[p]
    <3>1. CASE p = Head(outbox)
      BY <1>3, <3>1, PublishPasses, PassedType
    <3>2. CASE p # Head(outbox)
      <4>1. Has(outbox, p) \/ Passed[p] = Shown[p]
        BY <2>2 DEF PassInv
      <4>2. Passed'[p] = Passed[p]
        BY <1>3, <3>2, PublishPasses, PassedType
      <4> QED
        BY <1>a, <2>1, <3>2, <4>1, <4>2, TailHas
    <3> QED
      BY <3>1, <3>2
  <2>3. TrustFirst(outbox')
    BY <1>a, <2>1, TailHas DEF PassInv
  <2> QED
    BY <1>3, <1>b, <2>2, <2>3, PublishPasses DEF PassInv
<1>4. CASE StopsService /\ ~Handles
  <2>1. owner = "idle" /\ owner' = "stopping" /\ UNCHANGED <<outbox, spc, props, update, offered>>
    BY <1>4 DEF StopsService, Service!Stop, Ready
  <2>2. Passed' = Passed
    BY <2>1 DEF Passed, Applied
  <2> QED
    BY <1>4, <1>b, <2>1, <2>2 DEF PassInv
<1>5. CASE (LoopCloses \/ ClientsGo \/ Aside) /\ ~Handles
  <2>1. UNCHANGED <<outbox, owner, spc, props, update, offered>>
    BY <1>5 DEF LoopCloses, ClientsGo, ClientGoes, Aside, busVars, serviceVars
  <2>2. Passed' = Passed
    BY <2>1 DEF Passed, Applied
  <2> QED
    BY <1>5, <1>b, <2>1, <2>2 DEF PassInv
<1>6. CASE ServiceGoes /\ ~Handles
  <2>1. outbox' = outbox
    BY <1>6 DEF ServiceGoes
  <2>2. owner' = "setting" => owner = "setting" /\ offered' = offered
    BY <1>6 DEF ServiceGoes, Service!TakesUpdate, Service!SetMust, Service!DoneCase
  <2>3. spc' \in {"run", "apply"} => spc \in {"run", "apply"} /\ Passed' = Passed
    BY <1>6, ServicePasses
  <2> QED
    BY <1>6, <1>b, <2>1, <2>2, <2>3 DEF PassInv
<1> QED
  BY <1>1, <1>2, <1>3, <1>4, <1>5, <1>6, BusStepKinds

\* What the bus shows is what the agent has, whenever the loop is back in its select
\* or waits for a client: but for the update that the service took.
LEMMA ReadyIsCurrent ==
    ASSUME BusTypeOK, PassInv, Ready, spc \in {"run", "apply"}
    PROVE  Shown = Applied
<1>1. Passed = Applied /\ \A p \in BusProps : ~Has(outbox, p)
  BY DEF Ready, Passed, Has
<1>2. \A p \in BusProps : Shown[p] = Applied[p]
  BY <1>1 DEF PassInv
<1>3. Shown = [p \in BusProps |-> Shown[p]] /\ Applied = [p \in BusProps |-> Applied[p]]
  BY PassedType DEF Shown
<1> QED
  BY <1>2, <1>3

-----------------------------------------------------------------------------
(* The login on the bus *)

\* A client that logs out does so after its handler made all its calls, and no update
\* of a login is passed on after its session.
TrueInv ==
    /\ \A c \in Clients : pc[c] \in LogoutSteps => Ready
    /\ Applied["LoginState"] = "LoggedIn" => session

\* A handler neither begins a logout nor ends a session.
LEMMA HandlerKeepsSession ==
    ASSUME IInv, Handles
    PROVE  session' = session /\ \A c \in Clients : pc'[c] \notin LogoutSteps
<1> USE DEF IInv, TypeOK, ClientTypeOK
<1>1. CASE StopClientReturns
  <2>1. \A c \in Clients : pc[c] = "closed"
    BY <1>1 DEF StopClientReturns, StopInv, OneLiveClient, Live
  <2>2. CASE UNCHANGED clientVars
    BY <2>1, <2>2 DEF clientVars, LogoutSteps
  <2>3. ASSUME NEW c \in Clients, StartNewClient(c, ccacheUp, krbcfgUp)
        PROVE  session' = session /\ \A d \in Clients : pc'[d] \notin LogoutSteps
    BY <2>1, <2>3 DEF StartNewClient, LogoutSteps
  <2> QED
    BY <1>1, <2>2, <2>3 DEF StopClientReturns, StartClient
<1>2. CASE apc = "select"
  <2>1. \A c \in Clients : pc[c] \notin LogoutSteps
    BY <1>2 DEF StopInv
  <2>2. CASE session' = session /\ pc' = pc
    BY <2>1, <2>2
  <2>3. ASSUME NEW c \in Clients, NEW cc, NEW kc, StartNewClient(c, cc, kc)
        PROVE  session' = session /\ \A d \in Clients : pc'[d] \notin LogoutSteps
    BY <2>1, <2>3 DEF StartNewClient, LogoutSteps
  <2>4. CASE HandleLoginResult
    BY <2>1, <2>4, LoginResultEffect DEF LogoutSteps
  <2>5. CASE HandleTND
    BY <2>2, <2>3, <2>5 DEF HandleTND, HandleTNDResult, StartClient, StopClient, BeginStop,
                            CloseDone, clientVars
  <2>6. CASE \/ \E u \in CCaches : HandleCCacheUpdate(u)
             \/ \E u \in Krb5Confs : HandleKrbConfUpdate(u)
             \/ \E k \in Callers : HandleReLogin(k)
    BY <2>2, <2>3, <2>6 DEF HandleCCacheUpdate, HandleKrbConfUpdate, HandleReLogin, StartClient,
                            BeginStop, CloseDone, SetCCache, SetKrb5Conf, clientVars
  <2>7. CASE HandleSleepEvent \/ HandleDone \/ ChannelClosed
    BY <2>2, <2>7 DEF HandleSleepEvent, HandleDone, ChannelClosed, StopClient, BeginStop,
                      CloseDone, clientVars
  <2> QED
    BY <1>2, <2>4, <2>5, <2>6, <2>7, <1>1, HandlesIsLoopStep, HandlesWhere DEF LoopStep, Exits
<1>3. CASE apc = "stopWait" /\ ~StopClientReturns
  BY <1>3, HandlesIsLoopStep DEF LoopStep, HandleTND, HandleTNDResult, HandleLoginResult,
     HandleCCacheUpdate, HandleKrbConfUpdate, HandleReLogin, HandleSleepEvent, HandleDone,
     ChannelClosed, Exits
<1> QED
  BY <1>1, <1>2, <1>3, HandlesWhere

\* A client begins its logout when the handler made its calls, and only a logout ends
\* a session.
LEMMA ClientsGoEffect ==
    ASSUME IInv, ClientsGo
    PROVE  /\ UNCHANGED busVars
           /\ \A c \in Clients : pc'[c] \in LogoutSteps => pc[c] \in LogoutSteps \/ Ready
           /\ session => session' \/ \E c \in Clients : pc[c] = "logoutWait"
<1>1. PICK c \in Clients : /\ ClientStep(c) /\ (DoneCase(c) \/ SendAborts(c) => Ready)
                           /\ UNCHANGED busVars
  BY DEF ClientsGo, ClientGoes
<1>2. ClientTypeOK
  BY DEF IInv, TypeOK
<1>3. /\ \A d \in Clients \ {c} : pc'[d] = pc[d]
      /\ session => (session' \/ pc[c] = "logoutWait")
  BY <1>1, <1>2, ClientStepEffect
<1>4. CASE DoneCase(c) \/ SendAborts(c)
  BY <1>1, <1>3, <1>4
<1>5. CASE TimerFires(c) \/ TimerCase(c) \/ LoginStarts(c) \/ LoginReturns(c)
  <2>1. pc'[c] \in {pc[c], "loggingIn", "loginWait", "loginResult"}
    BY <1>2, <1>5 DEF ClientTypeOK, TimerFires, TimerCase, LoginStarts, RequestStarts,
          LoginReturns, LoginOK, LoginUnparsed, LoginFailed, LoginEnds
  <2> QED
    BY <1>1, <1>3, <2>1 DEF LogoutSteps
<1>6. CASE LogoutStarts(c) \/ LogoutEnds(c) \/ Closes(c)
  BY <1>1, <1>3, <1>6 DEF LogoutStarts, RequestStarts, LogoutEnds, Closes, LogoutSteps
<1> QED
  BY <1>1, <1>4, <1>5, <1>6 DEF ClientStep

\* Each step keeps the login on the bus true.
LEMMA TrueStep ==
    /\ IInv /\ IInv' /\ BusTypeOK /\ PlaceInv /\ PassInv /\ TrueInv
    /\ [BusNext]_allVars
    => TrueInv'
<1> SUFFICES ASSUME IInv, IInv', BusTypeOK, PlaceInv, PassInv, TrueInv, [BusNext]_allVars
             PROVE  TrueInv'
  OBVIOUS
<1>a. "LoginState" \in BusProps /\ Shown["LoginState"] = loginState
  BY BusPropsAre DEF Shown
<1>b. loginState = "LoggedIn" => session
  BY DEF IInv, StateInv, LoggedInMeansSession
<1>1. CASE Handles
  <2>1. Applied' = Applied
    BY <1>1, HandlesIsLoopStep DEF serviceVars, Applied
  <2> QED
    BY <1>1, <2>1, HandlerKeepsSession DEF TrueInv
<1>2. CASE NotifyReturns \/ Publishes \/ StopsService
  <2>1. /\ Applied' = Applied /\ UNCHANGED <<pc, session>>
        /\ ~Ready \/ StopsService
    BY <1>2 DEF NotifyReturns, Publishes, StopsService, Service!Stop, Service!SetProperty,
                vars, clientVars, serviceVars, Applied, Ready
  <2>2. \A c \in Clients : pc[c] \in LogoutSteps => Ready /\ apc = "stopWait"
    BY DEF TrueInv, IInv, StopInv
  <2>3. StopsService => apc = "exit"
    BY DEF StopsService
  <2> QED
    BY <2>1, <2>2, <2>3 DEF TrueInv
<1>3. CASE LoopCloses \/ Aside
  <2>1. UNCHANGED <<pc, session, outbox, owner>> /\ Applied' = Applied
    BY <1>3 DEF LoopCloses, Exits, Aside, clientVars, busVars, serviceVars, Applied
  <2> QED
    BY <2>1 DEF TrueInv, Ready
<1>4. CASE ClientsGo
  <2>1. UNCHANGED <<outbox, owner>> /\ Applied' = Applied
    BY <1>4, ClientsGoEffect DEF busVars, serviceVars, Applied
  <2>2. \A c \in Clients : pc'[c] \in LogoutSteps => Ready'
    BY <1>4, <2>1, ClientsGoEffect DEF TrueInv, Ready
  <2>3. ASSUME NEW c \in Clients, pc[c] = "logoutWait", Applied["LoginState"] = "LoggedIn"
        PROVE  FALSE
    <3>1. Ready /\ loginState = "LoggingOut" /\ apc = "stopWait"
      BY <2>3 DEF TrueInv, LogoutSteps, IInv, StopInv, StateInv, StateFitsClient
    <3>2. spc \in {"run", "apply"}
      BY <3>1 DEF PlaceInv
    <3> QED
      BY <1>a, <2>3, <3>1, <3>2, ReadyIsCurrent
  <2> QED
    BY <1>4, <2>1, <2>2, <2>3, ClientsGoEffect DEF TrueInv
<1>5. CASE ServiceGoes
  <2>1. UNCHANGED <<pc, session, outbox>>
    BY <1>5 DEF ServiceGoes, vars, clientVars
  <2>2. Ready => Ready'
    BY <1>5, <2>1 DEF ServiceGoes, Ready, BusTypeOK, PlaceInv, Service!TakesUpdate,
                      Service!SetMust, Service!DoneCase
  <2>3. CASE spc' \in {"run", "apply"}
    <3>1. Applied'["LoginState"] \in {Applied["LoginState"], loginState}
      <4>1. CASE spc = "run" /\ owner = "setting" /\ Applied' = Passed
        BY <1>a, <4>1, PassedType DEF Passed, PassInv
      <4> QED
        BY <1>5, <2>3, <4>1, ServicePasses
    <3> QED
      BY <1>b, <2>1, <2>2, <3>1 DEF TrueInv
  <2>4. CASE spc' \notin {"run", "apply"}
    <3>1. CASE Service!SetMust
      <4>1. spc = "stopping" /\ spc' # "apply"
        BY <2>4, <3>1 DEF Service!SetMust, BusTypeOK
      <4>2. props' = [props EXCEPT ![Service!Signal[1]] = Service!Signal[2]]
        BY <3>1 DEF Service!SetMust
      <4>3. Service!Signal[2] = Unknown
        BY <4>1 DEF Service!Signal
      <4>4. props'["LoginState"] \in {props["LoginState"], Unknown}
        BY <1>a, <4>2, <4>3 DEF BusTypeOK
      <4>5. Applied = props /\ Applied' = props' /\ Unknown # "LoggedIn"
        BY <4>1 DEF Applied, BusValues, LoginStates
      <4> QED
        BY <2>1, <2>2, <4>4, <4>5 DEF TrueInv
    <3>2. CASE Service!DoneCase
      <4>1. Applied' = Applied
        BY <3>2 DEF Service!DoneCase, Applied
      <4> QED
        BY <2>1, <2>2, <4>1 DEF TrueInv
    <3> QED
      BY <1>5, <2>4, <3>1, <3>2 DEF ServiceGoes, Service!TakesUpdate
  <2> QED
    BY <2>3, <2>4
<1> QED
  BY <1>1, <1>2, <1>3, <1>4, <1>5, BusStepKinds

-----------------------------------------------------------------------------
(* The order of the status on the bus *)

T(f) == f["TrustedNetwork"]
L(f) == f["LoginState"]

\* The steps of BusStatus, but for those of a service that stops, as a relation between
\* trust and login state before (t, l) and after (u, m).
Move(t, l, u, m) ==
    \/ u = t /\ m = l
    \/ t = "NotTrusted" /\ l = "LoggedOut" /\ u = "Trusted" /\ m = l
    \/ t = "Trusted" /\ l # "LoggingOut" /\ u = "NotTrusted" /\ m = l
    \/ t = "Trusted" /\ l \in {"LoggedOut", "LoggedIn"} /\ u = t /\ m = "LoggingIn"
    \/ t = "Trusted" /\ l = "LoggingIn" /\ u = t /\ m \in {"LoggedIn", "LoggedOut"}
    \/ l # "LoggingOut" /\ u = t /\ m = "LoggingOut"
    \/ l = "LoggingOut" /\ u = t /\ m = "LoggedOut"

\* All that is on its way is a chain of such steps: the update that was taken, the one
\* that is offered, and then the trust before the login state.
ViewInv ==
    /\ spc \in {"run", "apply"} =>
         /\ Move(T(props), L(props), T(Applied), L(Applied))
         /\ Move(T(Applied), L(Applied), T(Passed), L(Passed))
         /\ Move(T(Passed), L(Passed), T(Shown), L(Passed))
         /\ Move(T(Shown), L(Passed), T(Shown), L(Shown))
         /\ T(Applied) # Unknown /\ T(Passed) # Unknown /\ T(props) # Unknown
    /\ spc = "stopping" => (T(props) = Unknown <=> next > 1)

\* A step moves the trust that is to be shown, then the login state.
LEMMA ShownMoves ==
    ASSUME IInv, [BusNext]_allVars
    PROVE  /\ Move(T(Shown), L(Shown), T(Shown'), L(Shown))
           /\ Move(T(Shown'), L(Shown), T(Shown'), L(Shown'))
<1>1. [Status!Next]_(Status!statusVars)
  BY BusStepIsStep, StatusStep
<1>2. /\ T(Shown) = (IF trustedNetwork THEN "Trusted" ELSE "NotTrusted") /\ L(Shown) = loginState
      /\ T(Shown') = (IF trustedNetwork' THEN "Trusted" ELSE "NotTrusted")
      /\ L(Shown') = loginState'
  BY BusPropsAre DEF T, L, Shown
<1> QED
  BY <1>1, <1>2 DEF Move, Status!Next, Status!GainTrust, Status!LoseTrust, Status!BeginLogin,
     Status!EndLogin, Status!BeginLogout, Status!EndLogout, Status!statusVars

\* Each step keeps the chain.
LEMMA ViewStep ==
    /\ IInv /\ BusTypeOK /\ PlaceInv /\ PassInv /\ ViewInv
    /\ [BusNext]_allVars
    => ViewInv'
<1> SUFFICES ASSUME IInv, BusTypeOK, PlaceInv, PassInv, ViewInv, [BusNext]_allVars
             PROVE  ViewInv'
  OBVIOUS
<1>a. "TrustedNetwork" \in BusProps /\ "LoginState" \in BusProps
  BY BusPropsAre
<1>r. \A t, l : Move(t, l, t, l)
  BY DEF Move
<1>1. CASE Handles
  <2>1. Ready /\ UNCHANGED <<spc, props, next>> /\ Applied' = Applied /\ Passed' = Passed
    BY <1>1, HandlesIsLoopStep DEF serviceVars, Applied, Passed
  <2>2. CASE spc \in {"run", "apply"}
    <3>1. Passed = Applied /\ Shown = Applied
      BY <2>1, <2>2, ReadyIsCurrent DEF Ready, Passed
    <3>2. /\ Move(T(Passed'), L(Passed'), T(Shown'), L(Passed'))
          /\ Move(T(Shown'), L(Passed'), T(Shown'), L(Shown'))
      BY <2>1, <3>1, ShownMoves
    <3> QED
      BY <2>1, <2>2, <3>2 DEF ViewInv, T, L
  <2>3. CASE spc \notin {"run", "apply"}
    BY <2>1, <2>3 DEF ViewInv, T
  <2> QED
    BY <2>2, <2>3
<1>b. ASSUME ~Handles PROVE Shown' = Shown
  BY <1>b, OthersShow
<1>2. CASE (NotifyReturns \/ LoopCloses \/ ClientsGo \/ Aside) /\ ~Handles
  <2>1. UNCHANGED <<owner, spc, next, props, update, offered>>
    BY <1>2 DEF NotifyReturns, LoopCloses, ClientsGo, ClientGoes, Aside, busVars, serviceVars
  <2>2. Applied' = Applied /\ Passed' = Passed
    BY <2>1 DEF Passed, Applied
  <2> QED
    BY <1>2, <1>b, <2>1, <2>2 DEF ViewInv, T, L
<1>3. CASE Publishes /\ ~Handles
  <2>1. /\ outbox # <<>> /\ outbox \in Seq(Calling) /\ Head(outbox) \in BusProps
        /\ owner = "idle"
        /\ UNCHANGED <<spc, props>> /\ Applied' = Applied /\ Passed = Applied
        /\ Passed' = [Applied EXCEPT ![Head(outbox)] = Shown[Head(outbox)]]
    BY <1>3, PublishPasses DEF Publishes, BusTypeOK
  <2>2. spc \in {"run", "apply"}
    BY <2>1 DEF PlaceInv
  <2>3. /\ T(Passed') = IF Head(outbox) = "TrustedNetwork" THEN T(Shown) ELSE T(Passed)
        /\ L(Passed') = IF Head(outbox) = "LoginState" THEN L(Shown) ELSE L(Passed)
    BY <1>a, <2>1, PassedType DEF T, L
  <2>4. CASE Head(outbox) = "TrustedNetwork"
    <3>1. T(Passed') = T(Shown) /\ L(Passed') = L(Passed)
      BY <2>3, <2>4
    <3>2. T(Shown) # Unknown
      BY <1>a DEF T, Shown, BusValues
    <3> QED
      BY <1>3, <1>b, <1>r, <2>1, <2>2, <3>1, <3>2 DEF ViewInv
  <2>5. CASE Head(outbox) = "LoginState"
    <3>1. T(Passed') = T(Passed) /\ L(Passed') = L(Shown)
      BY <2>3, <2>5
    <3>2. T(Passed) = T(Shown)
      <4>1. ~Has(Tail(outbox), "TrustedNetwork") /\ "TrustedNetwork" # Head(outbox)
        BY <2>1, <2>5, TailHas DEF PassInv
      <4>2. ~Has(outbox, "TrustedNetwork")
        BY <2>1, <4>1, TailHas
      <4> QED
        BY <1>a, <2>2, <4>2 DEF PassInv, T
    <3> QED
      BY <1>3, <1>b, <1>r, <2>1, <2>2, <3>1, <3>2 DEF ViewInv
  <2>6. CASE Head(outbox) \notin {"TrustedNetwork", "LoginState"}
    <3>1. T(Passed') = T(Passed) /\ L(Passed') = L(Passed)
      BY <2>3, <2>6
    <3> QED
      BY <1>3, <1>b, <2>1, <2>2, <3>1 DEF ViewInv
  <2> QED
    BY <2>4, <2>5, <2>6
<1>4. CASE StopsService /\ ~Handles
  <2>1. owner = "idle" /\ owner' = "stopping" /\ UNCHANGED <<spc, next, props, update, offered>>
    BY <1>4 DEF StopsService, Service!Stop, Ready
  <2>2. Applied' = Applied /\ Passed' = Passed
    BY <2>1 DEF Passed, Applied
  <2> QED
    BY <1>4, <1>b, <2>1, <2>2 DEF ViewInv, T, L
<1>5. CASE ServiceGoes /\ ~Handles
  <2>1. CASE spc' \in {"run", "apply"}
    <3>1. /\ spc \in {"run", "apply"} /\ Passed' = Passed
          /\ \/ spc = "run" /\ props' = props /\ Applied' = Passed
             \/ props' = Applied /\ Applied' = Applied
      BY <1>5, <2>1, ServicePasses
    <3>2. spc = "run" => Applied = props
      BY DEF Applied
    <3> QED
      BY <1>5, <1>b, <1>r, <2>1, <3>1, <3>2 DEF ViewInv
  <2>2. CASE Service!DoneCase
    <3>1. spc = "run" /\ spc' = "stopping" /\ UNCHANGED <<props, next>>
      BY <2>2 DEF Service!DoneCase
    <3> QED
      BY <3>1 DEF ViewInv, PlaceInv, T
  <2>3. CASE spc' = "stopping" /\ Service!SetMust
    <3>1. spc = "stopping" /\ next < 5 /\ next' = next + 1
      BY <2>3, BusPropsAre DEF Service!SetMust
    <3>2. props' = [props EXCEPT ![BusOrder[next]] = Unknown]
      BY <3>1, <2>3 DEF Service!SetMust, Service!Signal
    <3>3. next \in 1..5 /\ (next > 1 => T(props) = Unknown)
      BY <3>1 DEF BusTypeOK, ViewInv
    <3>4. T(props') = Unknown
      BY <1>a, <3>2, <3>3, BusPropsAre DEF T, BusTypeOK
    <3> QED
      BY <3>1, <3>3, <3>4, <2>3 DEF ViewInv, T
  <2>4. CASE spc' = "stopped"
    BY <2>4 DEF ViewInv
  <2> QED
    BY <1>5, <2>1, <2>2, <2>3, <2>4 DEF ServiceGoes, Service!SetMust, Service!TakesUpdate, BusTypeOK
<1> QED
  BY <1>1, <1>2, <1>3, <1>4, <1>5, BusStepKinds

-----------------------------------------------------------------------------
(* What follows for every reachable state *)

\* The program starts with nothing on its way.
LEMMA BusInitInv == BusInit => BusTypeOK /\ PlaceInv /\ PassInv /\ TrueInv /\ ViewInv
<1> SUFFICES ASSUME BusInit PROVE BusTypeOK /\ PlaceInv /\ PassInv /\ TrueInv /\ ViewInv
  OBVIOUS
<1>1. /\ Init /\ outbox = <<>> /\ spc = "run" /\ next = 1 /\ owner = "idle" /\ sdone = FALSE
      /\ props = BusInitial /\ offered = Service!NoUpdate /\ update = Service!NoUpdate
  BY DEF BusInit
<1>2. Service!NoUpdate \in BusProps \X (BusValues \union {Unknown})
  BY BusPropsAre DEF Service!NoUpdate
<1>3. BusInitial \in [BusProps -> BusValues \union {Unknown}]
  BY DEF BusInitial, BusValues, LoginStates
<1>4. BusTypeOK
  <2>1. outbox \in Seq(Calling)
    BY <1>1
  <2>2. next \in 1..5 /\ sdone \in BOOLEAN
    <3>1. next \in 1..5
      BY <1>1
    <3>2. sdone \in BOOLEAN
      BY <1>1, Zenon
    <3> QED
      BY <3>1, <3>2
  <2>3. props \in [BusProps -> BusValues \union {Unknown}]
    BY <1>1, <1>3
  <2>4. /\ offered \in BusProps \X (BusValues \union {Unknown})
        /\ update \in BusProps \X (BusValues \union {Unknown})
    BY <1>1, <1>2
  <2>5. spc \in {"run", "apply", "stopping", "stopped"}
        /\ owner \in {"idle", "setting", "stopping", "away"}
    BY <1>1
  <2> QED
    BY <2>1, <2>2, <2>3, <2>4, <2>5 DEF BusTypeOK
<1>5. PlaceInv
  BY <1>1 DEF PlaceInv, Init
<1>6. Applied = BusInitial /\ Passed = BusInitial /\ props = BusInitial
  BY <1>1 DEF Applied, Passed
<1>7. \A p \in BusProps : BusInitial[p] = Shown[p]
  BY <1>1, BusPropsAre DEF BusInitial, Shown, Init
<1>8. PassInv
  BY <1>1, <1>6, <1>7 DEF PassInv, TrustFirst
<1>9. T(BusInitial) = "NotTrusted" /\ L(BusInitial) = "LoggedOut"
  BY BusPropsAre DEF T, L, BusInitial
<1>10. TrueInv
  BY <1>1, <1>6, <1>9 DEF TrueInv, L, Init, ClientInit, LogoutSteps
<1>11. ViewInv
  <2>1. T(Shown) = T(BusInitial) /\ L(Shown) = L(BusInitial)
    BY <1>7, BusPropsAre DEF T, L
  <2>2. T(BusInitial) # Unknown
    BY <1>9 DEF BusValues
  <2> QED
    BY <1>1, <1>6, <2>1, <2>2 DEF ViewInv, Move
<1> QED
  BY <1>4, <1>5, <1>8, <1>10, <1>11

\* The invariant of the agent with its service.
BusInv == BusTypeOK /\ PlaceInv /\ PassInv /\ TrueInv /\ ViewInv

\* It holds in every state, with that of the agent.
LEMMA BusInvariant == BusSpec => [](IInv /\ BusInv)
<1>1. BusInit => BusInv
  BY BusInitInv DEF BusInv
<1>2. IInv /\ IInv' /\ BusInv /\ [BusNext]_allVars => BusInv'
  BY BusTypeStep, PlaceStep, PassStep, TrueStep, ViewStep DEF BusInv, IInv
<1> QED
  BY <1>1, <1>2, BusRunsAgent, Invariant, PTL DEF BusSpec

\* Whenever the loop is back in its select, the bus shows all that the agent has, but
\* for the one update that the service took.
THEOREM BusFollowsAgent == BusSpec => []BusIsCurrent
<1>1. BusInv => BusIsCurrent
  BY ReadyIsCurrent DEF BusInv, BusIsCurrent, Applied
<1> QED
  BY <1>1, BusInvariant, PTL

\* No reader of the bus sees a login that the service does not have, but for an update
\* that the service took.
THEOREM BusLoginIsTrue == BusSpec => []LoginShownIsTrue
<1>1. BusInv => LoginShownIsTrue
  <2> SUFFICES ASSUME BusInv, props["LoginState"] = "LoggedIn",
                      spc # "apply" \/ update[1] # "LoginState"
               PROVE  session
    BY DEF LoginShownIsTrue
  <2>1. Applied["LoginState"] = props["LoginState"]
    BY BusPropsAre DEF Applied, BusInv, BusTypeOK
  <2> QED
    BY <2>1 DEF BusInv, TrueInv
<1> QED
  BY <1>1, BusInvariant, PTL

\* The status on the bus moves as BusStatus says.
LEMMA BusViewStep ==
    IInv /\ BusInv /\ [BusNext]_allVars => [BusView!Next]_(BusView!busStatusVars)
<1> SUFFICES ASSUME IInv, BusInv, [BusNext]_allVars
             PROVE  [BusView!Next]_(BusView!busStatusVars)
  OBVIOUS
<1> USE DEF BusInv, BusView!busStatusVars
<1>1. CASE props' = props
  BY <1>1
<1>2. CASE ServiceGoes /\ props' # props
  <2>1. Service!SetMust
    BY <1>2 DEF ServiceGoes, Service!TakesUpdate, Service!DoneCase
  <2>2. CASE spc = "apply"
    <3>1. spc' = "run"
      BY <2>1, <2>2 DEF Service!SetMust
    <3>2. props' = Applied
      BY <1>2, <2>2, <3>1, ServicePasses
    <3>3. Move(T(props), L(props), T(props'), L(props')) /\ T(props) # Unknown
      BY <2>2, <3>2 DEF ViewInv
    <3> QED
      BY <3>3 DEF Move, T, L, BusView!Next, BusView!GainTrust, BusView!LoseTrust,
                  BusView!BeginLogin, BusView!EndLogin, BusView!BeginLogout, BusView!EndLogout
  <2>3. CASE spc = "stopping"
    <3>1. props' = [props EXCEPT ![BusOrder[next]] = Unknown]
      BY <2>1, <2>3 DEF Service!SetMust, Service!Signal
    <3>2. next \in 1..5 /\ (T(props) = Unknown <=> next > 1)
      BY <2>3 DEF BusTypeOK, ViewInv
    <3>3. DOMAIN props = BusProps
      BY DEF BusTypeOK
    <3>4. CASE next = 1
      <4>1. props'["TrustedNetwork"] = Unknown /\ props'["LoginState"] = props["LoginState"]
        BY <3>1, <3>3, <3>4, BusPropsAre
      <4> QED
        BY <3>2, <3>4, <4>1 DEF T, BusView!Next, BusView!Leave
    <3>5. CASE next = 2
      <4>1. props'["TrustedNetwork"] = props["TrustedNetwork"] /\ props'["LoginState"] = Unknown
        BY <3>1, <3>3, <3>5, BusPropsAre
      <4> QED
        BY <3>2, <3>5, <4>1 DEF T, BusView!Next, BusView!Leave
    <3>6. CASE next \in 3..5
      <4>1. /\ props'["TrustedNetwork"] = props["TrustedNetwork"]
            /\ props'["LoginState"] = props["LoginState"]
        BY <3>1, <3>3, <3>6, BusPropsAre
      <4> QED
        BY <4>1
    <3> QED
      BY <3>2, <3>4, <3>5, <3>6
  <2> QED
    BY <2>1, <2>2, <2>3 DEF Service!SetMust, BusTypeOK
<1>3. CASE props' # props /\ ~ServiceGoes
  <2>1. ~Handles /\ ~Aside /\ ~ClientsGo /\ ~LoopCloses /\ ~NotifyReturns
    BY <1>3, HandlesIsLoopStep DEF Aside, ClientsGo, ClientGoes, LoopCloses, NotifyReturns,
                                   busVars, serviceVars
  <2>2. ~Publishes /\ ~StopsService
    BY <1>3 DEF Publishes, StopsService, Service!SetProperty, Service!Stop
  <2> QED
    BY <1>3, <2>1, <2>2, BusStepKinds
<1> QED
  BY <1>1, <1>2, <1>3

\* A reader of the bus sees trust and login state change in the order of BusStatus, for
\* all delays of the desktop and the service.
THEOREM BusShowsStatus == BusSpec => ShowsBusStatus
<1>1. BusInit => BusView!Init
  BY BusPropsAre DEF BusInit, BusInitial, BusView!Init
<1> QED
  BY <1>1, BusViewStep, BusInvariant, PTL DEF BusSpec, ShowsBusStatus, BusView!Spec

=============================================================================
