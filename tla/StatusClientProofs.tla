------------------------- MODULE StatusClientProofs -------------------------
(***************************************************************************)
(* Proof that a subscriber sees what changed, for any properties and any   *)
(* room in its channel, however often the agent stops, crashes and starts. *)
(***************************************************************************)
EXTENDS StatusClient, SequenceTheorems, DBusServiceProofs

Updates == Props \X (Values \union {Unknown})

\* The property p is set: its value is not one that Export left.
IsSet(p) ==
    \/ Settled
    \/ spc = "starting" /\ \E i \in 1..next-1 : Order[i] = p

\* The value of p that is published is the last one on its way to the client, or the
\* client has it.
Current(p) ==
    \/ \E i \in 1..Len(queue) :
          /\ queue[i] = <<p, props[p]>>
          /\ \A j \in i+1..Len(queue) : queue[j][1] # p
    \/ /\ status[p] = props[p]
       /\ \A i \in 1..Len(queue) : queue[i][1] # p

\* Where there are signals, and what the program saw.
ChannelInv ==
    /\ cpc \notin {"signal", "initial", "range", "send"} =>
          changed = {} /\ queue = <<>> /\ deferred = <<>>
    /\ ~overtaken \/ ~conn => deferred = <<>>
    /\ ~overtaken => \A i \in 1..Len(queue) : queue[i][1] \in changed
    /\ closing => ~conn
    /\ cpc = "range" => seen = status

CurrentInv ==
    conn /\ ~overtaken => \A p \in changed : IsSet(p) => Current(p)

-----------------------------------------------------------------------------
\* For the service, a step of the subscriber is none.
LEMMA SubscriberLeavesService == [Next]_vars => [ServiceNext]_serviceVars
<1> SUFFICES ASSUME [Next]_vars PROVE [ServiceNext]_serviceVars
  OBVIOUS
<1> USE DEF ServiceNext
<1>1. CASE UNCHANGED vars
  BY <1>1 DEF vars
<1>2. CASE Publishes
  BY <1>2 DEF Publishes
<1>3. CASE ServiceAlone(ServiceStep)
  BY <1>3 DEF ServiceAlone
<1>4. CASE SubscriberAlone(SubscriberStep)
  BY <1>4 DEF SubscriberAlone
<1> QED
  BY <1>1, <1>2, <1>3, <1>4 DEF Next

\* Whoever subscribes, the service is the one of DBusService.
THEOREM SubscribedServiceGoesOn == Spec => ServiceSpec
<1>1. Init => ServiceInit
  BY DEF Init
<1> QED
  BY <1>1, SubscriberLeavesService, PTL DEF Spec, ServiceSpec

\* What is left of a channel when an update is taken out has updates only.
LEMMA RemoveAtType ==
    ASSUME NEW S, NEW q \in Seq(S), NEW n \in 1..Len(q)
    PROVE  RemoveAt(q, n) \in Seq(S)
<1>1. SubSeq(q, 1, n-1) \in Seq(S) /\ SubSeq(q, n+1, Len(q)) \in Seq(S)
  OBVIOUS
<1> QED
  BY <1>1, ConcatProperties DEF RemoveAt

\* A step of the subscriber keeps the types.
LEMMA SubscriberType ==
    ASSUME TypeOK, SubscriberStep
    PROVE  /\ cpc' \in {"new", "query", "match", "signal", "initial", "range", "send",
                        "ended", "failed"}
           /\ status' \in Statuses /\ seen' \in Statuses
           /\ queue' \in Seq(Updates) /\ deferred' \in Seq(Updates)
           /\ conn' \in BOOLEAN /\ closing' \in BOOLEAN /\ overtaken' \in BOOLEAN
           /\ changed' \subseteq Props
<1>1. /\ cpc \in {"new", "query", "match", "signal", "initial", "range", "send",
                  "ended", "failed"}
      /\ status \in Statuses /\ seen \in Statuses
      /\ queue \in Seq(Updates) /\ deferred \in Seq(Updates)
      /\ conn \in BOOLEAN /\ closing \in BOOLEAN /\ overtaken \in BOOLEAN
      /\ changed \subseteq Props
      /\ props \in Statuses
  BY DEF TypeOK, ServiceTypeOK, Updates, Statuses
<1>2. CASE Subscribe \/ Query \/ SubscribeFails \/ AddMatchSignal \/ Takes
  BY <1>1, <1>2 DEF Subscribe, Query, SubscribeFails, AddMatchSignal, Takes
<1>3. CASE Signals
  <2>1. PICK k \in 0..Len(queue) : /\ queue' = SubSeq(queue, k + 1, Len(queue))
                                   /\ changed' = {u[1] : u \in ToSet(queue')}
    BY <1>3 DEF Signals
  <2>2. queue' \in Seq(Updates)
    BY <1>1, <2>1
  <2>3. \A u \in ToSet(queue') : u[1] \in Props
    BY <2>2 DEF ToSet, Updates
  <2> QED
    BY <1>1, <1>3, <2>1, <2>2, <2>3 DEF Signals
<1>4. CASE HandlePropertiesChanged
  <2>1. Head(queue) \in Updates /\ Tail(queue) \in Seq(Updates)
    BY <1>1, <1>4 DEF HandlePropertiesChanged
  <2>2. status' \in Statuses
    BY <1>1, <1>4, <2>1 DEF HandlePropertiesChanged, Updates, Statuses
  <2> QED
    BY <1>1, <1>4, <2>1, <2>2 DEF HandlePropertiesChanged
<1>5. CASE Ends
  <2>1. status' \in Statuses /\ seen' \in Statuses
    BY <1>5 DEF Ends, Statuses
  <2>2. cpc' = "ended" /\ queue' = <<>> /\ changed' = {} /\ overtaken' = FALSE
        /\ UNCHANGED <<deferred, conn, closing>>
    BY <1>5 DEF Ends
  <2>3. queue' \in Seq(Updates) /\ deferred' \in Seq(Updates)
    BY <1>1, <2>2
  <2>4. conn' \in BOOLEAN /\ closing' \in BOOLEAN /\ overtaken' \in BOOLEAN
    BY <1>1, <2>2
  <2> QED
    BY <2>1, <2>2, <2>3, <2>4
<1>6. CASE Close \/ ConnectionLost
  <2>1. /\ conn' = FALSE /\ deferred' = <<>> /\ closing' \in {closing, TRUE}
        /\ UNCHANGED <<cpc, status, seen, queue, changed, overtaken>>
    BY <1>6 DEF Close, ConnectionLost
  <2>2. queue' \in Seq(Updates) /\ deferred' \in Seq(Updates)
    BY <1>1, <2>1
  <2>3. conn' \in BOOLEAN /\ closing' \in BOOLEAN /\ overtaken' \in BOOLEAN
    BY <1>1, <2>1
  <2> QED
    BY <1>1, <2>1, <2>2, <2>3
<1>7. CASE DeferredDeliver
  <2>1. PICK i \in 1..Len(deferred) : /\ queue' = Append(queue, deferred[i])
                                     /\ deferred' = RemoveAt(deferred, i)
    BY <1>7 DEF DeferredDeliver
  <2>2. deferred[i] \in Updates /\ deferred' \in Seq(Updates)
    BY <1>1, <2>1, RemoveAtType
  <2>3. queue' \in Seq(Updates)
    BY <1>1, <2>1, <2>2
  <2> QED
    BY <1>1, <1>7, <2>2, <2>3 DEF DeferredDeliver
<1> QED
  BY <1>2, <1>3, <1>4, <1>5, <1>6, <1>7 DEF SubscriberStep

\* So do all steps.
LEMMA SubscriptionType == TypeOK /\ [Next]_vars => TypeOK'
<1> SUFFICES ASSUME TypeOK, [Next]_vars PROVE TypeOK'
  OBVIOUS
<1>1. ServiceTypeOK'
  BY SubscriberLeavesService, ServiceType DEF TypeOK
<1>2. CASE UNCHANGED vars
  BY <1>1, <1>2 DEF vars, subscriberVars, bounds, TypeOK, Statuses
<1>3. CASE Publishes
  <2>1. Signal \in Props \X (Values \union {Unknown}) /\ Signal[1] \in Props
    BY SignalType DEF TypeOK
  <2>2. /\ Append(queue, Signal) \in Seq(Props \X (Values \union {Unknown}))
        /\ Append(deferred, Signal) \in Seq(Props \X (Values \union {Unknown}))
    BY <2>1 DEF TypeOK
  <2>3. /\ UNCHANGED <<cpc, status, seen, conn, closing, bounds>>
        /\ queue' \in {queue, Append(queue, Signal)}
        /\ deferred' \in {deferred, Append(deferred, Signal)}
        /\ overtaken' \in {overtaken, TRUE}
        /\ changed' \in {changed, changed \union {Signal[1]}}
    BY <1>3 DEF Publishes, Hears, subscriberVars
  <2> QED
    BY <1>1, <2>1, <2>2, <2>3 DEF TypeOK, bounds, Statuses
<1>4. CASE \/ ServiceAlone(ServiceStep)
           \/ /\ Start /\ starts < MaxStarts /\ starts' = starts + 1
              /\ UNCHANGED <<subscriberVars, sets>>
           \/ /\ AgentSets /\ sets < MaxSets /\ sets' = sets + 1
              /\ UNCHANGED <<subscriberVars, starts>>
  <2>1. sets' \in 0..MaxSets /\ starts' \in 0..MaxStarts
    BY <1>4, BoundsAssumption DEF ServiceAlone, bounds, TypeOK
  <2>2. UNCHANGED subscriberVars
    BY <1>4 DEF ServiceAlone
  <2> QED
    BY <1>1, <2>1, <2>2 DEF subscriberVars, TypeOK, Statuses
<1>5. CASE SubscriberAlone(SubscriberStep)
  BY <1>1, <1>5, SubscriberType DEF SubscriberAlone, bounds, TypeOK, Updates
<1> QED
  BY <1>2, <1>3, <1>4, <1>5 DEF Next

-----------------------------------------------------------------------------
\* A property that is set after a step of the service that sets none was set before
\* and has its value.
LEMMA SetBefore ==
    ASSUME ServiceTypeOK, Start \/ AgentSets \/ ServiceStep, NEW p \in Props, IsSet(p)'
    PROVE  IsSet(p) /\ props' = props
<1> USE DEF IsSet, Settled, ServiceTypeOK
<1>1. CASE Start \/ Crash
  BY <1>1 DEF Start, Crash
<1>2. CASE Export
  BY <1>2 DEF Export
<1>3. CASE AgentSets
  BY <1>3 DEF AgentSets, SetProperty
<1>4. CASE TakesUpdate \/ Stop \/ DoneCase
  BY <1>4 DEF TakesUpdate, Stop, DoneCase
<1>5. CASE ClosesRequest \/ \E k \in Callers : CallReLogin(k) \/ TakesRequest(k) \/ ReLoginReturns(k)
  BY <1>5 DEF ClosesRequest, CallReLogin, TakesRequest, ReLoginReturns
<1> QED
  BY <1>1, <1>2, <1>3, <1>4, <1>5 DEF ServiceStep

\* SetMust sets the property of its signal, and no other.
LEMMA SetBySetMust ==
    ASSUME ServiceTypeOK, SetMust, NEW p \in Props, IsSet(p)'
    PROVE  IF p = Signal[1] THEN Signal = <<p, props'[p]>> ELSE IsSet(p) /\ props'[p] = props[p]
<1>1. /\ Signal \in Props \X (Values \union {Unknown})
      /\ props \in [Props -> Values \union {Unknown}]
      /\ props' = [props EXCEPT ![Signal[1]] = Signal[2]]
  BY SignalType DEF ServiceTypeOK, SetMust
<1>2. CASE p = Signal[1]
  BY <1>1, <1>2
<1>3. CASE p # Signal[1]
  <2>1. props'[p] = props[p]
    BY <1>1, <1>3
  <2>2. CASE spc \in {"apply", "stopping"}
    BY <1>3, <2>1, <2>2 DEF IsSet, Settled
  <2>3. CASE spc = "starting"
    <3>1. Signal[1] = Order[next] /\ next \in 1..Len(Order) /\ Len(Order) \in Nat
      BY <2>3, OrderType DEF Signal, ServiceTypeOK
    <3>2. \E i \in 1..next : Order[i] = p
      <4>1. CASE next < Len(Order)
        <5>1. next' = next + 1 /\ spc' = "starting"
          BY <2>3, <3>1, <4>1 DEF SetMust
        <5> QED
          BY <3>1, <5>1 DEF IsSet, Settled
      <4>2. CASE next = Len(Order)
        BY <4>2, OrderReachesAll
      <4> QED
        BY <3>1, <4>1, <4>2
    <3>3. \E i \in 1..next-1 : Order[i] = p
      BY <1>3, <3>1, <3>2
    <3> QED
      BY <1>3, <2>1, <2>3, <3>3 DEF IsSet
  <2> QED
    BY <2>2, <2>3 DEF SetMust
<1> QED
  BY <1>2, <1>3

\* A signal that comes in is the last one of its property, and leaves the others as
\* current as they were.
LEMMA HearingKeepsCurrent ==
    ASSUME TypeOK, SetMust, queue' = Append(queue, Signal), UNCHANGED status,
           NEW p \in Props, IsSet(p)', p # Signal[1] => Current(p)
    PROVE  Current(p)'
<1>1. Signal \in Updates /\ queue \in Seq(Updates) /\ ServiceTypeOK
  BY SignalType DEF TypeOK, Updates
<1>2. /\ Len(queue') = Len(queue) + 1 /\ Len(queue) \in Nat
      /\ \A i \in 1..Len(queue) : queue'[i] = queue[i]
      /\ queue'[Len(queue) + 1] = Signal
  BY <1>1
<1>3. CASE p = Signal[1]
  <2>1. queue'[Len(queue')] = <<p, props'[p]>>
    BY <1>1, <1>2, <1>3, SetBySetMust
  <2>2. Len(queue') \in 1..Len(queue') /\ Len(queue')+1..Len(queue') = {}
    BY <1>2
  <2> QED
    BY <2>1, <2>2 DEF Current
<1>4. CASE p # Signal[1]
  <2>1. props'[p] = props[p]
    BY <1>1, <1>4, SetBySetMust
  <2>2. CASE \E i \in 1..Len(queue) : /\ queue[i] = <<p, props[p]>>
                                      /\ \A j \in i+1..Len(queue) : queue[j][1] # p
    <3>1. PICK i \in 1..Len(queue) : /\ queue[i] = <<p, props[p]>>
                                    /\ \A j \in i+1..Len(queue) : queue[j][1] # p
      BY <2>2
    <3>2. i \in 1..Len(queue') /\ queue'[i] = <<p, props'[p]>>
      BY <1>2, <2>1, <3>1
    <3>3. \A j \in i+1..Len(queue') : queue'[j][1] # p
      BY <1>2, <1>4, <3>1
    <3> QED
      BY <3>2, <3>3 DEF Current
  <2>3. CASE status[p] = props[p] /\ \A i \in 1..Len(queue) : queue[i][1] # p
    <3>1. \A i \in 1..Len(queue') : queue'[i][1] # p
      BY <1>2, <1>4, <2>3
    <3> QED
      BY <2>1, <2>3, <3>1 DEF Current
  <2> QED
    BY <1>4, <2>2, <2>3 DEF Current
<1> QED
  BY <1>3, <1>4

\* The client that handles a signal has its value until the next one.
LEMMA HandlingKeepsCurrent ==
    ASSUME TypeOK, HandlePropertiesChanged, UNCHANGED props, NEW p \in Props, Current(p)
    PROVE  Current(p)'
<1>1. /\ queue \in Seq(Updates) /\ status \in Statuses /\ queue # <<>>
      /\ queue' = Tail(queue)
      /\ status' = [status EXCEPT ![Head(queue)[1]] = Head(queue)[2]]
  BY DEF TypeOK, Updates, HandlePropertiesChanged
<1>2. /\ Len(queue) \in Nat /\ Len(queue) >= 1 /\ Len(queue') = Len(queue) - 1
      /\ \A i \in 1..Len(queue') : queue'[i] = queue[i + 1]
      /\ Head(queue) = queue[1] /\ queue[1] \in Updates
  BY <1>1
<1>3. queue[1][1] \in Props
  BY <1>2 DEF Updates
<1>4. status'[p] = IF p = queue[1][1] THEN queue[1][2] ELSE status[p]
  BY <1>1, <1>2, <1>3 DEF Statuses
<1>5. CASE \E i \in 1..Len(queue) : /\ queue[i] = <<p, props[p]>>
                                    /\ \A j \in i+1..Len(queue) : queue[j][1] # p
  <2>1. PICK i \in 1..Len(queue) : /\ queue[i] = <<p, props[p]>>
                                  /\ \A j \in i+1..Len(queue) : queue[j][1] # p
    BY <1>5
  <2>2. CASE i = 1
    <3>1. status'[p] = props'[p]
      BY <1>4, <2>1, <2>2
    <3>2. ASSUME NEW j \in 1..Len(queue') PROVE queue'[j][1] # p
      <4>1. j+1 \in i+1..Len(queue)
        BY <1>2, <2>2
      <4> QED
        BY <1>2, <2>1, <4>1
    <3> QED
      BY <3>1, <3>2 DEF Current
  <2>3. CASE i # 1
    <3>1. i-1 \in 1..Len(queue') /\ (i-1) + 1 = i
      BY <1>2, <2>3
    <3>2. queue'[i-1] = <<p, props'[p]>>
      BY <1>2, <2>1, <3>1
    <3>3. ASSUME NEW j \in (i-1)+1..Len(queue') PROVE queue'[j][1] # p
      <4>1. j+1 \in i+1..Len(queue) /\ j \in 1..Len(queue')
        BY <1>2, <3>1
      <4> QED
        BY <1>2, <2>1, <4>1
    <3> QED
      BY <3>1, <3>2, <3>3 DEF Current
  <2> QED
    BY <2>2, <2>3
<1>6. CASE status[p] = props[p] /\ \A i \in 1..Len(queue) : queue[i][1] # p
  <2>1. 1 \in 1..Len(queue) /\ \A j \in 1..Len(queue') : j+1 \in 1..Len(queue)
    BY <1>2
  <2>2. status'[p] = props'[p]
    BY <1>4, <1>6, <2>1
  <2>3. \A j \in 1..Len(queue') : queue'[j][1] # p
    BY <1>2, <1>6, <2>1
  <2> QED
    BY <2>2, <2>3 DEF Current
<1> QED
  BY <1>5, <1>6 DEF Current

\* The channel that the client sets gets the last signals.
LEMMA SignalsKeepsCurrent ==
    ASSUME TypeOK, Signals, UNCHANGED props, NEW p \in changed', Current(p)
    PROVE  Current(p)'
<1>1. PICK k \in 0..Len(queue) : /\ queue' = SubSeq(queue, k + 1, Len(queue))
                                /\ changed' = {u[1] : u \in ToSet(queue')}
  BY DEF Signals
<1>2. queue \in Seq(Updates) /\ Len(queue) \in Nat
  BY DEF TypeOK, Updates
<1>3. /\ queue' \in Seq(Updates) /\ Len(queue') = Len(queue) - k
      /\ \A i \in 1..(Len(queue) - k) : queue'[i] = queue[k + i]
  BY <1>1, <1>2
<1>4. PICK m \in 1..(Len(queue) - k) : queue'[m][1] = p
  <2>1. PICK u \in ToSet(queue') : p = u[1]
    BY <1>1
  <2>2. DOMAIN queue' = 1..(Len(queue) - k)
    BY <1>3
  <2> QED
    BY <2>1, <2>2 DEF ToSet
<1>5. k+m \in 1..Len(queue) /\ queue[k + m][1] = p
  BY <1>2, <1>3, <1>4
<1>6. PICK i \in 1..Len(queue) : /\ queue[i] = <<p, props[p]>>
                                /\ \A j \in i+1..Len(queue) : queue[j][1] # p
  BY <1>5 DEF Current
<1>7. i >= k+m
  BY <1>2, <1>5, <1>6
<1>8. i-k \in 1..Len(queue') /\ k + (i-k) = i
  BY <1>2, <1>3, <1>4, <1>7
<1>9. queue'[i-k] = <<p, props'[p]>>
  BY <1>3, <1>6, <1>8
<1>10. ASSUME NEW j \in (i-k)+1..Len(queue') PROVE queue'[j][1] # p
  <2>1. k+j \in i+1..Len(queue) /\ j \in 1..(Len(queue) - k)
    BY <1>2, <1>3, <1>8
  <2> QED
    BY <1>3, <1>6, <2>1
<1> QED
  BY <1>8, <1>9, <1>10 DEF Current

-----------------------------------------------------------------------------
\* The steps of the subscriber keep what is current on its way.
LEMMA SubscriberKeeps ==
    ASSUME TypeOK, ChannelInv, CurrentInv, SubscriberStep, UNCHANGED serviceVars
    PROVE  ChannelInv' /\ CurrentInv'
<1>1. /\ queue \in Seq(Updates) /\ deferred \in Seq(Updates) /\ changed \subseteq Props
      /\ Len(<<>>) = 0
  BY DEF TypeOK, Updates
<1>2. UNCHANGED props /\ \A p \in Props : IsSet(p)' => IsSet(p)
  BY DEF serviceVars, IsSet, Settled
<1>3. CASE Subscribe \/ Query \/ SubscribeFails
  <2>1. /\ UNCHANGED <<seen, queue, deferred, conn, closing, changed, overtaken>>
        /\ cpc \notin {"signal", "initial", "range", "send"}
        /\ cpc' \notin {"signal", "initial", "range", "send"}
    BY <1>3 DEF Subscribe, Query, SubscribeFails
  <2>2. changed = {} /\ queue = <<>> /\ deferred = <<>>
    BY <2>1 DEF ChannelInv
  <2> QED
    BY <2>1, <2>2 DEF ChannelInv, CurrentInv
<1>4. CASE AddMatchSignal \/ Takes
  <2>1. /\ UNCHANGED <<status, queue, deferred, conn, closing, changed, overtaken>>
        /\ cpc' \in {"signal", "range"} /\ (cpc' = "range" => seen' = status)
    BY <1>4 DEF AddMatchSignal, Takes
  <2>2. \A p \in Props : Current(p) => Current(p)'
    BY <1>2, <2>1 DEF Current
  <2> QED
    BY <1>1, <1>2, <2>1, <2>2 DEF ChannelInv, CurrentInv
<1>5. CASE Signals
  <2>1. /\ cpc' = "initial"
        /\ UNCHANGED <<status, seen, deferred, conn, closing, overtaken>>
    BY <1>5 DEF Signals
  <2>2. PICK k \in 0..Len(queue) : /\ queue' = SubSeq(queue, k + 1, Len(queue))
                                  /\ changed' = {u[1] : u \in ToSet(queue')}
    BY <1>5 DEF Signals
  <2>3. /\ queue' \in Seq(Updates) /\ Len(queue') = Len(queue) - k /\ Len(queue) \in Nat
        /\ \A i \in 1..(Len(queue) - k) : queue'[i] = queue[k + i] /\ k + i \in 1..Len(queue)
    BY <1>1, <2>2
  <2>4. \A i \in 1..Len(queue') : queue'[i][1] \in changed'
    <3>1. \A i \in 1..Len(queue') : queue'[i] \in ToSet(queue')
      BY <2>3 DEF ToSet
    <3> QED
      BY <2>2, <3>1
  <2>5. ASSUME NEW p \in changed' PROVE \E i \in 1..Len(queue) : queue[i][1] = p
    <3>1. PICK u \in ToSet(queue') : p = u[1]
      BY <2>2, <2>5
    <3>2. PICK i \in 1..(Len(queue) - k) : u = queue'[i]
      <4>1. DOMAIN queue' = 1..(Len(queue) - k)
        BY <2>3
      <4> QED
        BY <3>1, <4>1 DEF ToSet
    <3> QED
      BY <2>3, <3>1, <3>2
  <2>6. ~overtaken => changed' \subseteq changed
    BY <2>5 DEF ChannelInv
  <2>7. ChannelInv'
    BY <2>1, <2>4 DEF ChannelInv
  <2>8. CurrentInv'
    BY <1>1, <1>2, <1>5, <2>1, <2>6, SignalsKeepsCurrent DEF CurrentInv
  <2> QED
    BY <2>7, <2>8
<1>6. CASE HandlePropertiesChanged
  <2>1. /\ cpc = "range" /\ cpc' = "send" /\ queue # <<>> /\ queue' = Tail(queue)
        /\ UNCHANGED <<seen, deferred, conn, closing, changed, overtaken>>
    BY <1>6 DEF HandlePropertiesChanged
  <2>2. /\ Len(queue') = Len(queue) - 1 /\ Len(queue) \in Nat
        /\ \A i \in 1..Len(queue') : queue'[i] = queue[i + 1] /\ i + 1 \in 1..Len(queue)
    BY <1>1, <2>1
  <2>3. ChannelInv'
    BY <2>1, <2>2 DEF ChannelInv
  <2>4. CurrentInv'
    BY <1>1, <1>2, <1>6, <2>1, HandlingKeepsCurrent DEF CurrentInv
  <2> QED
    BY <2>3, <2>4
<1>7. CASE Ends
  <2>1. /\ cpc' = "ended" /\ queue' = <<>> /\ changed' = {} /\ ~conn
        /\ UNCHANGED <<deferred, conn, closing>>
    BY <1>7 DEF Ends, ChannelInv
  <2> QED
    BY <1>1, <2>1 DEF ChannelInv, CurrentInv
<1>8. CASE Close \/ ConnectionLost
  <2>1. /\ conn' = FALSE /\ deferred' = <<>>
        /\ UNCHANGED <<cpc, status, seen, queue, changed, overtaken>>
    BY <1>8 DEF Close, ConnectionLost
  <2> QED
    BY <2>1 DEF ChannelInv, CurrentInv
<1>9. CASE DeferredDeliver
  <2>1. deferred # <<>> /\ UNCHANGED <<cpc, status, seen, conn, closing, changed, overtaken>>
    BY <1>1, <1>9 DEF DeferredDeliver
  <2>2. overtaken /\ conn
    BY <2>1 DEF ChannelInv
  <2>3. cpc \in {"signal", "initial", "range", "send"}
    BY <2>1, <2>2 DEF ChannelInv
  <2> QED
    BY <2>1, <2>2, <2>3 DEF ChannelInv, CurrentInv
<1> QED
  BY <1>3, <1>4, <1>5, <1>6, <1>7, <1>8, <1>9 DEF SubscriberStep

\* A signal of the service keeps it, whether the client hears it or not.
LEMMA PublishingKeeps ==
    ASSUME TypeOK, ChannelInv, CurrentInv, Publishes
    PROVE  ChannelInv' /\ CurrentInv'
<1>1. /\ queue \in Seq(Updates) /\ changed \subseteq Props /\ ServiceTypeOK /\ SetMust
      /\ Signal \in Updates /\ Signal[1] \in Props
  BY SignalType DEF TypeOK, Updates, Publishes
<1>2. CASE /\ conn /\ cpc \in {"signal", "initial", "range", "send"}
           /\ queue' = Append(queue, Signal)
           /\ changed' = changed \union {Signal[1]}
           /\ UNCHANGED <<deferred, overtaken, cpc, status, seen, conn, closing>>
  <2>1. /\ Len(queue') = Len(queue) + 1 /\ Len(queue) \in Nat
        /\ \A i \in 1..Len(queue) : queue'[i] = queue[i]
        /\ queue'[Len(queue) + 1] = Signal
    BY <1>1, <1>2
  <2>2. ASSUME ~overtaken, NEW i \in 1..Len(queue') PROVE queue'[i][1] \in changed'
    <3>1. i \in 1..Len(queue) \/ i = Len(queue) + 1
      BY <2>1
    <3> QED
      BY <1>2, <2>1, <2>2, <3>1 DEF ChannelInv
  <2>3. ChannelInv'
    BY <1>2, <2>2 DEF ChannelInv
  <2>4. ASSUME ~overtaken, NEW p \in changed', IsSet(p)' PROVE Current(p)'
    <3>1. p \in Props
      BY <1>1, <1>2, <2>4
    <3>2. p # Signal[1] => p \in changed /\ IsSet(p)
      BY <1>1, <1>2, <2>4, <3>1, SetBySetMust
    <3>3. p # Signal[1] => Current(p)
      BY <1>2, <2>4, <3>2 DEF CurrentInv
    <3> QED
      BY <1>1, <1>2, <2>4, <3>1, <3>3, HearingKeepsCurrent
  <2> QED
    BY <1>2, <2>3, <2>4 DEF CurrentInv
<1>3. CASE /\ conn /\ cpc \in {"signal", "initial", "range", "send"}
           /\ overtaken' = TRUE
           /\ UNCHANGED <<queue, cpc, status, seen, conn, closing>>
  BY <1>3 DEF ChannelInv, CurrentInv
<1>4. CASE /\ ~conn \/ cpc \notin {"signal", "initial", "range", "send"}
           /\ UNCHANGED subscriberVars
  BY <1>4 DEF subscriberVars, ChannelInv, CurrentInv
<1> QED
  BY <1>2, <1>3, <1>4 DEF Publishes, Hears

\* The channel and the client are always as current as this.
LEMMA SubscriptionStep ==
    TypeOK /\ ChannelInv /\ CurrentInv /\ [Next]_vars => ChannelInv' /\ CurrentInv'
<1> SUFFICES ASSUME TypeOK, ChannelInv, CurrentInv, [Next]_vars
             PROVE  ChannelInv' /\ CurrentInv'
  OBVIOUS
<1>1. changed \subseteq Props /\ ServiceTypeOK
  BY DEF TypeOK
<1>2. CASE UNCHANGED vars
  <2>1. ChannelInv' /\ UNCHANGED <<conn, overtaken, changed>>
    BY <1>2 DEF vars, subscriberVars, ChannelInv
  <2>2. \A p \in changed : (IsSet(p)' => IsSet(p)) /\ (Current(p) => Current(p)')
    BY <1>2 DEF vars, serviceVars, subscriberVars, IsSet, Settled, Current
  <2> QED
    BY <2>1, <2>2 DEF CurrentInv
<1>3. CASE Publishes
  BY <1>3, PublishingKeeps
<1>4. CASE (Start \/ AgentSets \/ ServiceStep) /\ UNCHANGED subscriberVars
  <2>1. ChannelInv'
    BY <1>4 DEF subscriberVars, ChannelInv
  <2>2. ASSUME conn, ~overtaken, NEW p \in changed, IsSet(p)' PROVE Current(p)'
    <3>1. IsSet(p) /\ props' = props
      BY <1>1, <1>4, <2>2, SetBefore
    <3>2. Current(p)
      BY <2>2, <3>1 DEF CurrentInv
    <3> QED
      BY <1>4, <3>1, <3>2 DEF subscriberVars, Current
  <2> QED
    BY <1>4, <2>1, <2>2 DEF subscriberVars, CurrentInv
<1>5. CASE SubscriberAlone(SubscriberStep)
  BY <1>5, SubscriberKeeps DEF SubscriberAlone
<1> QED
  BY <1>2, <1>3, <1>4, <1>5 DEF Next, ServiceAlone

\* The variables of a subscriber keep their types.
THEOREM SubscriberTypeCorrect == Spec => []TypeOK
<1>1. Init => TypeOK
  <2> SUFFICES ASSUME Init PROVE TypeOK
    OBVIOUS
  <2>1. ServiceTypeOK
    BY ServiceInitInv DEF Init, ServiceInv
  <2>2. sets \in 0..MaxSets /\ starts \in 0..MaxStarts
    BY BoundsAssumption DEF Init
  <2>3. status \in Statuses /\ seen \in Statuses
    BY DEF Init, Statuses
  <2>4. queue \in Seq(Props \X (Values \union {Unknown}))
        /\ deferred \in Seq(Props \X (Values \union {Unknown}))
    BY DEF Init
  <2>5. cpc = "new" /\ {conn, closing, overtaken} \subseteq BOOLEAN /\ changed = {}
    BY DEF Init
  <2> QED
    BY <2>1, <2>2, <2>3, <2>4, <2>5 DEF TypeOK
<1> QED
  BY <1>1, SubscriptionType, PTL DEF Spec

\* A program that took all its updates sees what is published of all that changed
\* while it was subscribed, unless its channel was full: also across crashes,
\* restarts and stops of the agent, at whatever place they come.
THEOREM ChangesAreSeen == Spec => []SeesWhatChanged
<1>1. Init => ChannelInv /\ CurrentInv
  BY DEF Init, ChannelInv, CurrentInv
<1>2. ChannelInv /\ CurrentInv => SeesWhatChanged
  <2> SUFFICES ASSUME ChannelInv, CurrentInv, CaughtUp, Settled, ~overtaken,
                      NEW p \in changed
               PROVE  seen[p] = props[p]
    BY DEF SeesWhatChanged
  <2>1. queue = <<>> /\ seen = status /\ conn
    BY DEF CaughtUp, ChannelInv
  <2>2. Current(p)
    BY <2>1 DEF CurrentInv, IsSet
  <2> QED
    BY <2>1, <2>2 DEF Current
<1> QED
  BY <1>1, <1>2, SubscriberTypeCorrect, SubscriptionStep, PTL DEF Spec

=============================================================================
