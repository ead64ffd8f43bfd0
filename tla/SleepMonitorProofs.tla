------------------------- MODULE SleepMonitorProofs -------------------------
(***************************************************************************)
(* Proofs about the sleep monitor, for any size of its channel and any     *)
(* number of signals.                                                      *)
(***************************************************************************)
EXTENDS SleepMonitor, SequenceTheorems, TLAPS

-----------------------------------------------------------------------------
\* What operations on a channel do with its elements.

\* One that is put in.
LEMMA AppendElements ==
    ASSUME NEW S, NEW q \in Seq(S), NEW x \in S
    PROVE  /\ Append(q, x) \in Seq(S)
           /\ ToSet(Append(q, x)) = ToSet(q) \union {x}
           /\ IsInjective(q) /\ x \notin ToSet(q) => IsInjective(Append(q, x))
<1> DEFINE r == Append(q, x)
<1>1. /\ r \in Seq(S) /\ Len(r) = Len(q) + 1
      /\ DOMAIN q = 1..Len(q) /\ DOMAIN r = 1..(Len(q) + 1)
      /\ \A i \in 1..Len(q) : r[i] = q[i]
      /\ r[Len(q) + 1] = x
      /\ Len(q) \in Nat
  OBVIOUS
<1> HIDE DEF r
<1>2. ToSet(r) = ToSet(q) \union {x}
  BY <1>1 DEF ToSet
<1>3. ASSUME IsInjective(q), x \notin ToSet(q) PROVE IsInjective(r)
  <2> SUFFICES ASSUME NEW i \in 1..(Len(q) + 1), NEW j \in 1..(Len(q) + 1), r[i] = r[j]
               PROVE  i = j
    BY <1>1 DEF IsInjective
  <2>1. \A n \in 1..Len(q) : r[n] # x
    BY <1>1, <1>3 DEF ToSet
  <2> QED
    BY <1>1, <1>3, <2>1 DEF IsInjective
<1> QED
  BY <1>1, <1>2, <1>3 DEF r

\* The first one is taken out.
LEMMA TailElements ==
    ASSUME NEW S, NEW q \in Seq(S), q # <<>>
    PROVE  /\ Tail(q) \in Seq(S) /\ Head(q) \in S
           /\ ToSet(q) = {Head(q)} \union ToSet(Tail(q))
           /\ IsInjective(q) => IsInjective(Tail(q)) /\ Head(q) \notin ToSet(Tail(q))
<1> DEFINE r == Tail(q)
<1>1. /\ r \in Seq(S) /\ Head(q) = q[1] /\ q[1] \in S
      /\ Len(q) \in Nat /\ Len(q) >= 1
      /\ DOMAIN q = 1..Len(q) /\ DOMAIN r = 1..(Len(q) - 1)
      /\ \A i \in 1..(Len(q) - 1) : r[i] = q[i+1]
  OBVIOUS
<1> HIDE DEF r
<1>2. ASSUME NEW i \in 1..Len(q) PROVE q[i] \in {q[1]} \union ToSet(r)
  <2>1. i = 1 \/ (i-1 \in 1..(Len(q) - 1) /\ q[i] = r[i-1])
    BY <1>1
  <2> QED
    BY <1>1, <2>1 DEF ToSet
<1>3. ASSUME NEW i \in 1..(Len(q) - 1) PROVE r[i] \in ToSet(q)
  BY <1>1 DEF ToSet
<1>4. ToSet(q) = {q[1]} \union ToSet(r)
  <2>1. ToSet(q) \subseteq {q[1]} \union ToSet(r)
    BY <1>1, <1>2 DEF ToSet
  <2>2. q[1] \in ToSet(q) /\ ToSet(r) \subseteq ToSet(q)
    BY <1>1, <1>3 DEF ToSet
  <2> QED
    BY <2>1, <2>2
<1>5. ASSUME IsInjective(q) PROVE IsInjective(r) /\ q[1] \notin ToSet(r)
  <2>1. \A i, j \in 1..Len(q) : q[i] = q[j] => i = j
    BY <1>1, <1>5 DEF IsInjective
  <2>2. \A i, j \in 1..(Len(q) - 1) : r[i] = r[j] => i = j
    <3> SUFFICES ASSUME NEW i \in 1..(Len(q) - 1), NEW j \in 1..(Len(q) - 1), r[i] = r[j]
                 PROVE  i = j
      OBVIOUS
    <3>1. i+1 \in 1..Len(q) /\ j+1 \in 1..Len(q) /\ q[i+1] = q[j+1]
      BY <1>1
    <3> QED
      BY <2>1, <3>1
  <2>3. \A i \in 1..(Len(q) - 1) : r[i] # q[1]
    <3> SUFFICES ASSUME NEW i \in 1..(Len(q) - 1), r[i] = q[1] PROVE FALSE
      OBVIOUS
    <3>1. i+1 \in 1..Len(q) /\ q[i+1] = q[1] /\ 1 \in 1..Len(q)
      BY <1>1
    <3> QED
      BY <2>1, <3>1
  <2> QED
    BY <1>1, <2>2, <2>3 DEF IsInjective, ToSet
<1> QED
  BY <1>1, <1>4, <1>5 DEF r

\* Any one is taken out.
LEMMA RemoveAtElements ==
    ASSUME NEW S, NEW q \in Seq(S), NEW n \in 1..Len(q)
    PROVE  /\ RemoveAt(q, n) \in Seq(S)
           /\ ToSet(q) = {q[n]} \union ToSet(RemoveAt(q, n))
           /\ IsInjective(q) => IsInjective(RemoveAt(q, n)) /\ q[n] \notin ToSet(RemoveAt(q, n))
<1> DEFINE a == SubSeq(q, 1, n-1)
           b == SubSeq(q, n+1, Len(q))
           r == RemoveAt(q, n)
           old(i) == IF i < n THEN i ELSE i+1
<1>1. Len(q) \in Nat /\ n \in Nat /\ DOMAIN q = 1..Len(q)
  OBVIOUS
<1>2. a \in Seq(S) /\ Len(a) = n-1 /\ \A i \in 1..(n-1) : a[i] = q[i]
  OBVIOUS
<1>3. b \in Seq(S) /\ Len(b) = Len(q) - n /\ \A i \in 1..(Len(q) - n) : b[i] = q[n+i]
  OBVIOUS
<1>4. r = a \o b
  BY DEF RemoveAt
<1> HIDE DEF a, b, r
<1>5. r \in Seq(S) /\ Len(r) = Len(q) - 1 /\ DOMAIN r = 1..(Len(q) - 1)
  <2>1. a \in Seq(S) /\ b \in Seq(S)
    BY <1>2, <1>3
  <2>2. r \in Seq(S) /\ Len(r) = Len(a) + Len(b)
    BY <1>4, <2>1, ConcatProperties
  <2>3. Len(r) = Len(q) - 1
    BY <1>1, <1>2, <1>3, <2>2
  <2>4. DOMAIN r = 1..Len(r)
    BY <2>2
  <2> QED
    BY <2>2, <2>3, <2>4
<1>6. ASSUME NEW i \in 1..(Len(q) - 1)
      PROVE  old(i) \in 1..Len(q) /\ old(i) # n /\ r[i] = q[old(i)]
  <2>1. CASE i < n
    BY <1>1, <1>2, <1>3, <1>4, <2>1
  <2>2. CASE i >= n
    <3>1. r[i] = b[i - (n-1)]
      BY <1>1, <1>2, <1>3, <1>4, <2>2
    <3>2. i - (n-1) \in 1..(Len(q) - n) /\ n + (i - (n-1)) = i + 1
      BY <1>1, <2>2
    <3> QED
      BY <1>1, <1>3, <2>2, <3>1, <3>2
  <2> QED
    BY <1>1, <2>1, <2>2
<1>7. ASSUME NEW i \in 1..Len(q), i # n PROVE \E j \in 1..(Len(q) - 1) : old(j) = i
  <2>1. CASE i < n
    BY <1>1, <2>1
  <2>2. CASE i > n
    <3>1. i-1 \in 1..(Len(q) - 1) /\ old(i-1) = i
      BY <1>1, <2>2
    <3> QED
      BY <3>1
  <2> QED
    BY <1>1, <1>7, <2>1, <2>2
<1>8. ASSUME NEW i \in 1..(Len(q) - 1), NEW j \in 1..(Len(q) - 1), old(i) = old(j)
      PROVE  i = j
  BY <1>1, <1>8
<1> HIDE DEF old
<1>9. ToSet(q) = {q[n]} \union ToSet(r)
  <2>1. \A i \in 1..Len(q) : q[i] \in {q[n]} \union ToSet(r)
    BY <1>5, <1>6, <1>7 DEF ToSet
  <2>2. \A i \in 1..(Len(q) - 1) : r[i] \in ToSet(q)
    BY <1>1, <1>6 DEF ToSet
  <2> QED
    BY <1>1, <1>5, <2>1, <2>2 DEF ToSet
<1>10. ASSUME IsInjective(q) PROVE IsInjective(r) /\ q[n] \notin ToSet(r)
  <2>1. \A i, j \in 1..Len(q) : q[i] = q[j] => i = j
    BY <1>1, <1>10 DEF IsInjective
  <2>2. \A i, j \in 1..(Len(q) - 1) : r[i] = r[j] => i = j
    BY <1>6, <1>8, <2>1
  <2>3. \A i \in 1..(Len(q) - 1) : r[i] # q[n]
    BY <1>6, <2>1
  <2> QED
    BY <1>5, <2>2, <2>3 DEF IsInjective, ToSet
<1> QED
  BY <1>5, <1>9, <1>10 DEF r

\* The first k are missed.
LEMMA SuffixElements ==
    ASSUME NEW S, NEW q \in Seq(S), NEW k \in 0..Len(q)
    PROVE  /\ SubSeq(q, k + 1, Len(q)) \in Seq(S)
           /\ Len(SubSeq(q, k + 1, Len(q))) = Len(q) - k
           /\ \A i \in 1..Len(SubSeq(q, k + 1, Len(q))) : SubSeq(q, k + 1, Len(q))[i] = q[k + i]
           /\ ToSet(SubSeq(q, k + 1, Len(q))) \subseteq ToSet(q)
           /\ IsInjective(q) => IsInjective(SubSeq(q, k + 1, Len(q)))
<1> DEFINE t == SubSeq(q, k + 1, Len(q))
<1>1. /\ t \in Seq(S) /\ Len(t) = Len(q) - k
      /\ \A i \in 1..(Len(q) - k) : t[i] = q[k + i]
  OBVIOUS
<1> HIDE DEF t
<1>2. DOMAIN q = 1..Len(q) /\ DOMAIN t = 1..(Len(q) - k) /\ Len(q) \in Nat
  BY <1>1
<1>3. \A i \in 1..(Len(q) - k) : k + i \in 1..Len(q)
  BY <1>2
<1>4. ToSet(t) \subseteq ToSet(q)
  BY <1>1, <1>2, <1>3 DEF ToSet
<1>5. ASSUME IsInjective(q) PROVE IsInjective(t)
  <2> SUFFICES ASSUME NEW i \in 1..(Len(q) - k), NEW j \in 1..(Len(q) - k), t[i] = t[j]
               PROVE  i = j
    BY <1>2 DEF IsInjective
  <2>1. q[k + i] = q[k + j]
    BY <1>1
  <2>2. k + i = k + j
    BY <1>2, <1>3, <1>5, <2>1 DEF IsInjective
  <2> QED
    BY <2>2
<1> QED
  BY <1>1, <1>4, <1>5 DEF t

-----------------------------------------------------------------------------
\* Where the monitor can be, and what is in its channel.
PlaceOK == mpc \in {"new", "failed", "matched", "select", "send", "closed"}

ChannelOK ==
    /\ sent \in Nat
    /\ queue \in Seq(AllSignals) /\ deferred \in Seq(AllSignals)
    /\ mpc = "send" => event \in AllSignals /\ IsEvent(event)

TypeOK == PlaceOK /\ ChannelOK

\* No step leads anywhere else, or puts anything else into the channel.
LEMMA TypeStep == TypeOK /\ [Next]_vars => TypeOK'
<1> SUFFICES ASSUME TypeOK, [Next]_vars PROVE TypeOK'
  OBVIOUS
<1> USE DEF TypeOK, PlaceOK, ChannelOK
<1>1. CASE UNCHANGED vars
  BY <1>1 DEF vars, IsEvent
<1>2. CASE Start \/ StartFails \/ AgentTakes \/ SendAborts \/ Stop
  BY <1>2 DEF Start, StartFails, AgentTakes, SendAborts, Stop, IsEvent
<1>7. CASE Ends
  BY <1>7 DEF Ends
<1>8. CASE ConnectionLost
  BY <1>8 DEF ConnectionLost, IsEvent
<1>3. CASE Signals
  <2>1. PICK k \in 0..Len(queue) : queue' = SubSeq(queue, k + 1, Len(queue))
    BY <1>3 DEF Signals
  <2>2. queue' \in Seq(AllSignals)
    BY <2>1, SuffixElements
  <2> QED
    BY <1>3, <2>2 DEF Signals
<1>4. CASE HandleSignal
  <2>1. Head(queue) \in AllSignals /\ Tail(queue) \in Seq(AllSignals)
    BY <1>4, TailElements DEF HandleSignal
  <2> QED
    BY <1>4, <2>1 DEF HandleSignal, IsEvent
<1>5. ASSUME NEW k \in Kinds, SignalSent([kind |-> k, nr |-> sent + 1])
      PROVE  TypeOK'
  <2> DEFINE s == [kind |-> k, nr |-> sent + 1]
  <2>1. s \in AllSignals
    BY DEF AllSignals
  <2> HIDE DEF s
  <2>2. Append(queue, s) \in Seq(AllSignals) /\ Append(deferred, s) \in Seq(AllSignals)
    BY <2>1
  <2>3. SignalSent(s)
    BY <1>5 DEF s
  <2>4. /\ sent' = sent + 1 /\ UNCHANGED <<mpc, event>>
        /\ queue' \in {queue, Append(queue, s)}
        /\ deferred' \in {deferred, Append(deferred, s)}
    BY <2>3 DEF SignalSent
  <2>5. queue' \in Seq(AllSignals) /\ deferred' \in Seq(AllSignals)
    BY <2>2, <2>4
  <2>6. sent' \in Nat /\ (mpc' = "send" => event' \in AllSignals /\ IsEvent(event)')
    BY <2>4 DEF IsEvent
  <2> QED
    BY <2>4, <2>5, <2>6
<1>6. CASE DeferredDeliver
  <2>1. PICK i \in 1..Len(deferred) : /\ queue' = Append(queue, deferred[i])
                                     /\ deferred' = RemoveAt(deferred, i)
    BY <1>6 DEF DeferredDeliver
  <2>2. deferred[i] \in AllSignals /\ deferred' \in Seq(AllSignals)
    BY <2>1, RemoveAtElements
  <2>3. queue' \in Seq(AllSignals)
    BY <2>1, <2>2
  <2> QED
    BY <1>6, <2>2, <2>3 DEF DeferredDeliver, IsEvent
<1> QED
  BY <1>1, <1>2, <1>3, <1>4, <1>5, <1>6, <1>7, <1>8 DEF Next

\* So the monitor and its channel keep their types.
LEMMA TypeCorrect == Spec => []TypeOK
<1>1. Init => TypeOK
  BY DEF Init, TypeOK, PlaceOK, ChannelOK
<1> QED
  BY <1>1, TypeStep, PTL DEF Spec

\* Each step of the monitor, its connection and the agent is one of an event
\* source, or none: an event that is offered is taken, or withdrawn after Stop.
THEOREM IsEventSource == Spec => SourceSafe
<1>1. Init => Source!Init
  BY DEF Init, Source!Init
<1>2. TypeOK /\ [Next]_vars => [Source!Next]_Source!sourceVars
  <2> SUFFICES ASSUME TypeOK, [Next]_vars
               PROVE  [Source!Next]_Source!sourceVars
    OBVIOUS
  <2> USE DEF TypeOK, PlaceOK, Source!Next, Source!sourceVars
  <2>1. CASE UNCHANGED vars
    BY <2>1 DEF vars
  <2>2. CASE Start \/ StartFails \/ Signals
    BY <2>2 DEF Start, StartFails, Signals, Source!Start
  <2>3. CASE HandleSignal
    <3>1. Head(queue) \in AllSignals
      BY <2>3, TailElements DEF HandleSignal, ChannelOK
    <3>2. Head(queue) # NoEvent
      BY <3>1, NoEventAssumption
    <3> QED
      BY <2>3, <3>2 DEF HandleSignal, Source!Offer
  <2>4. CASE AgentTakes
    BY <2>4 DEF AgentTakes, Source!Take
  <2>5. CASE SendAborts
    BY <2>5 DEF SendAborts, Source!Withdraw
  <2>6. CASE Ends
    BY <2>6 DEF Ends, Source!Close
  <2>7. CASE Stop
    BY <2>7 DEF Stop, Source!Stop
  <2>8. ASSUME NEW s, SignalSent(s)
        PROVE  [Source!Next]_Source!sourceVars
    BY <2>8 DEF SignalSent
  <2>9. CASE DeferredDeliver \/ ConnectionLost
    BY <2>9 DEF DeferredDeliver, ConnectionLost
  <2> QED
    BY <2>1, <2>2, <2>3, <2>4, <2>5, <2>6, <2>7, <2>8, <2>9 DEF Next
<1> QED
  BY <1>1, <1>2, TypeCorrect, PTL DEF Spec, SourceSafe, Source!Safe

-----------------------------------------------------------------------------
\* Each signal is at one place on its way, and none has a number yet to come.
OnceOnTheWay ==
    /\ \A s \in OnTheWay : s.nr <= sent
    /\ IsInjective(queue) /\ IsInjective(deferred)
    /\ ToSet(queue) \intersect ToSet(deferred) = {}
    /\ mpc = "send" => event \notin ToSet(queue) \union ToSet(deferred)

\* As long as the channel had room it has the signals in their order.
Ordered ==
    /\ \A i, j \in 1..Len(queue) : i < j => queue[i].nr < queue[j].nr
    /\ mpc = "send" => \A i \in 1..Len(queue) : event.nr < queue[i].nr

InOrder ==
    /\ mpc \in {"new", "matched"} => ~overtaken
    /\ ~overtaken => deferred = <<>> /\ Ordered

SleepInv == TypeOK /\ OnceOnTheWay /\ InOrder /\ NoneLost

\* Signals that are put into the channel are new, those that are taken out were at
\* one place only, and are sent on, if they are events.
LEMMA SleepStep == SleepInv /\ TypeOK' /\ [Next]_vars => SleepInv'
<1> SUFFICES ASSUME SleepInv, TypeOK', [Next]_vars
             PROVE  OnceOnTheWay' /\ InOrder' /\ NoneLost'
  BY DEF SleepInv
<1> DEFINE Listens == mpc \in {"select", "send"} /\ conn /\ ~done
           AllThere == owed = {s \in OnTheWay : IsEvent(s)}
<1>1. /\ sent \in Nat
      /\ queue \in Seq(AllSignals) /\ deferred \in Seq(AllSignals)
      /\ mpc = "send" => event \in AllSignals /\ IsEvent(event)
  BY DEF SleepInv, TypeOK, ChannelOK
<1>2. OnceOnTheWay /\ InOrder /\ (Listens => AllThere)
  BY DEF SleepInv, NoneLost
<1> SUFFICES OnceOnTheWay' /\ InOrder' /\ (Listens => AllThere)'
  BY DEF NoneLost, InOrder, Ordered
<1>3. ToSet(<<>>) = {} /\ IsInjective(<<>>) /\ Len(<<>>) = 0
  BY DEF ToSet, IsInjective
<1>4. CASE UNCHANGED vars
  BY <1>2, <1>4 DEF vars, OnceOnTheWay, InOrder, Ordered, OnTheWay, IsEvent
<1>5. CASE Start \/ StartFails \/ Stop \/ SendAborts
  <2>1. /\ UNCHANGED <<queue, deferred, overtaken, sent, owed, event>>
        /\ mpc' = "send" => mpc = "send"
        /\ mpc' \in {"new", "matched"} => mpc \in {"new", "matched"}
        /\ Listens' => Listens /\ UNCHANGED mpc
    BY <1>5 DEF Start, StartFails, Stop, SendAborts
  <2>2. OnTheWay' \subseteq OnTheWay /\ (UNCHANGED mpc => OnTheWay' = OnTheWay)
    BY <2>1 DEF OnTheWay
  <2>3. OnceOnTheWay' /\ InOrder'
    BY <1>2, <2>1, <2>2 DEF OnceOnTheWay, InOrder, Ordered
  <2>4. (Listens => AllThere)'
    BY <1>2, <2>1, <2>2
  <2> QED
    BY <2>3, <2>4
<1>6. CASE Signals
  <2>1. PICK k \in 0..Len(queue) : queue' = SubSeq(queue, k + 1, Len(queue))
    BY <1>6 DEF Signals
  <2>2. /\ UNCHANGED <<deferred, overtaken, sent, conn, done>>
        /\ mpc = "matched" /\ mpc' = "select"
        /\ owed' = {s \in ToSet(queue') : IsEvent(s)}
    BY <1>6 DEF Signals
  <2>3. /\ Len(queue') = Len(queue) - k
        /\ \A i \in 1..Len(queue') : queue'[i] = queue[k + i]
        /\ ToSet(queue') \subseteq ToSet(queue)
        /\ IsInjective(queue) => IsInjective(queue')
    BY <1>1, <2>1, SuffixElements
  <2>4. deferred = <<>> /\ OnTheWay' = ToSet(queue') /\ OnTheWay' \subseteq OnTheWay
    BY <1>2, <1>3, <2>2, <2>3 DEF OnTheWay, InOrder
  <2>5. OnceOnTheWay'
    BY <1>2, <2>2, <2>3, <2>4 DEF OnceOnTheWay
  <2>6. ASSUME NEW i \in 1..Len(queue'), NEW j \in 1..Len(queue'), i < j
        PROVE  queue'[i].nr < queue'[j].nr
    <3>1. k+i \in 1..Len(queue) /\ k+j \in 1..Len(queue) /\ k+i < k+j
      BY <1>1, <2>3, <2>6
    <3> QED
      BY <1>2, <2>2, <2>3, <3>1 DEF InOrder, Ordered
  <2>7. InOrder'
    BY <1>2, <2>2, <2>6 DEF InOrder, Ordered
  <2> QED
    BY <2>2, <2>4, <2>5, <2>7
<1>7. CASE HandleSignal
  <2>1. /\ queue # <<>> /\ queue' = Tail(queue)
        /\ UNCHANGED <<done, conn, deferred, owed, overtaken, sent>>
        /\ mpc = "select"
        /\ \/ IsEvent(Head(queue)) /\ mpc' = "send" /\ event' = Head(queue)
           \/ ~IsEvent(Head(queue)) /\ mpc' = "select"
    BY <1>7 DEF HandleSignal
  <2>2. /\ ToSet(queue) = {Head(queue)} \union ToSet(queue')
        /\ IsInjective(queue') /\ Head(queue) \notin ToSet(queue')
    BY <1>1, <1>2, <2>1, TailElements DEF OnceOnTheWay
  <2>3. /\ OnTheWay = {Head(queue)} \union ToSet(queue') \union ToSet(deferred)
        /\ OnTheWay' = ToSet(queue') \union ToSet(deferred)
                          \union (IF IsEvent(Head(queue)) THEN {Head(queue)} ELSE {})
    BY <2>1, <2>2 DEF OnTheWay
  <2>4. OnceOnTheWay'
    BY <1>2, <2>1, <2>2, <2>3 DEF OnceOnTheWay
  <2>5. (Listens => AllThere)'
    BY <1>2, <2>1, <2>3
  <2>6. Ordered => Ordered'
    <3>1. /\ Len(queue') = Len(queue) - 1 /\ Len(queue) \in Nat /\ Len(queue) >= 1
          /\ \A i \in 1..Len(queue') : queue'[i] = queue[i + 1]
          /\ Head(queue) = queue[1]
      BY <1>1, <2>1
    <3>2. \A i \in 1..Len(queue') : i + 1 \in 1..Len(queue) /\ 1 < i + 1
      BY <3>1
    <3>3. ASSUME Ordered, NEW i \in 1..Len(queue'), NEW j \in 1..Len(queue'), i < j
          PROVE  queue'[i].nr < queue'[j].nr
      BY <3>1, <3>2, <3>3 DEF Ordered
    <3>4. ASSUME Ordered, mpc' = "send", NEW i \in 1..Len(queue')
          PROVE  event'.nr < queue'[i].nr
      <4>1. 1 \in 1..Len(queue) /\ event' = queue[1]
        BY <2>1, <3>1, <3>4
      <4> QED
        BY <3>1, <3>2, <3>4, <4>1 DEF Ordered
    <3> QED
      BY <3>3, <3>4 DEF Ordered
  <2>7. InOrder'
    BY <1>2, <2>1, <2>6 DEF InOrder
  <2> QED
    BY <2>4, <2>5, <2>7
<1>8. CASE AgentTakes
  <2>1. /\ UNCHANGED <<done, conn, queue, deferred, event, overtaken, sent>>
        /\ mpc = "send" /\ mpc' = "select" /\ owed' = owed \ {event}
    BY <1>8 DEF AgentTakes
  <2>2. OnTheWay' = OnTheWay \ {event}
    BY <1>2, <2>1 DEF OnTheWay, OnceOnTheWay
  <2>3. (Listens => AllThere)'
    BY <1>2, <2>1, <2>2
  <2>4. OnceOnTheWay' /\ InOrder'
    BY <1>2, <2>1, <2>2 DEF OnceOnTheWay, InOrder, Ordered
  <2> QED
    BY <2>3, <2>4
<1>9. CASE Ends \/ ConnectionLost
  <2>1. /\ queue' \in {queue, <<>>} /\ deferred' = <<>> /\ ~conn'
        /\ UNCHANGED <<event, overtaken, sent>>
        /\ mpc' \notin {"new", "matched"} /\ (mpc' = "send" => mpc = "send")
    BY <1>9 DEF Ends, ConnectionLost
  <2>2. OnTheWay' \subseteq OnTheWay
    BY <1>3, <2>1 DEF OnTheWay
  <2>3. OnceOnTheWay'
    BY <1>2, <1>3, <2>1, <2>2 DEF OnceOnTheWay
  <2>4. InOrder'
    BY <1>2, <1>3, <2>1 DEF InOrder, Ordered
  <2> QED
    BY <2>1, <2>3, <2>4
<1>10. ASSUME NEW k \in Kinds, SignalSent([kind |-> k, nr |-> sent + 1])
       PROVE  OnceOnTheWay' /\ InOrder' /\ (Listens => AllThere)'
  <2> DEFINE s == [kind |-> k, nr |-> sent + 1]
  <2>1. s \in AllSignals /\ s.nr = sent + 1
    BY <1>1 DEF AllSignals
  <2> HIDE DEF s
  <2>2. SignalSent(s)
    BY <1>10 DEF s
  <2>3. UNCHANGED <<mpc, done, conn, event>> /\ sent' = sent + 1
    BY <2>2 DEF SignalSent
  <2>4. s \notin OnTheWay /\ \A x \in OnTheWay : x.nr <= sent'
    <3>1. \A x \in OnTheWay : x \in AllSignals /\ x.nr <= sent
      BY <1>1, <1>2 DEF OnceOnTheWay, OnTheWay, ToSet
    <3>2. \A x \in AllSignals : x.nr \in Nat
      BY DEF AllSignals
    <3> QED
      BY <1>1, <2>1, <2>3, <3>1, <3>2
  <2>5. CASE queue' = Append(queue, s) /\ UNCHANGED <<deferred, overtaken>>
             /\ owed' = IF IsEvent(s) THEN owed \union {s} ELSE owed
    <3>1. /\ ToSet(queue') = ToSet(queue) \union {s}
          /\ IsInjective(queue) /\ s \notin ToSet(queue) => IsInjective(queue')
      BY <1>1, <2>1, <2>5, AppendElements
    <3>2. OnTheWay' = OnTheWay \union {s}
      BY <2>3, <2>5, <3>1 DEF OnTheWay
    <3>3. /\ s \notin ToSet(queue) \union ToSet(deferred)
          /\ mpc = "send" => event # s
      BY <2>4 DEF OnTheWay
    <3>4. \A x \in OnTheWay' : x.nr <= sent'
      BY <1>1, <2>1, <2>3, <2>4, <3>2
    <3>5. OnceOnTheWay'
      BY <1>2, <2>3, <2>5, <3>1, <3>3, <3>4 DEF OnceOnTheWay
    <3>6. (Listens => AllThere)'
      BY <1>2, <2>3, <2>5, <3>2
    <3>7. Ordered => Ordered'
      <4>1. /\ Len(queue') = Len(queue) + 1 /\ Len(queue) \in Nat
            /\ \A i \in 1..Len(queue) : queue'[i] = queue[i]
            /\ queue'[Len(queue) + 1] = s
        BY <1>1, <2>1, <2>5
      <4>2. /\ \A i \in 1..Len(queue) : queue[i].nr < s.nr
            /\ mpc = "send" => event.nr < s.nr
        <5>1. \A x \in OnTheWay : x.nr \in Nat /\ x.nr <= sent
          <6>1. \A x \in OnTheWay : x \in AllSignals /\ x.nr <= sent
            BY <1>1, <1>2 DEF OnceOnTheWay, OnTheWay, ToSet
          <6> QED
            BY <6>1 DEF AllSignals
        <5>2. /\ \A i \in 1..Len(queue) : queue[i] \in OnTheWay
              /\ mpc = "send" => event \in OnTheWay
          BY <1>1 DEF OnTheWay, ToSet
        <5> QED
          BY <1>1, <2>1, <5>1, <5>2
      <4>3. ASSUME Ordered, NEW i \in 1..Len(queue'), NEW j \in 1..Len(queue'), i < j
            PROVE  queue'[i].nr < queue'[j].nr
        <5>1. CASE j \in 1..Len(queue)
          BY <4>1, <4>3, <5>1 DEF Ordered
        <5>2. CASE j = Len(queue) + 1
          BY <4>1, <4>2, <4>3, <5>2
        <5> QED
          BY <4>1, <5>1, <5>2
      <4>4. ASSUME Ordered, mpc' = "send", NEW i \in 1..Len(queue')
            PROVE  event'.nr < queue'[i].nr
        <5>1. i \in 1..Len(queue) \/ i = Len(queue) + 1
          BY <4>1
        <5> QED
          BY <2>3, <4>1, <4>2, <4>4, <5>1 DEF Ordered
      <4> QED
        BY <4>3, <4>4 DEF Ordered
    <3>8. InOrder'
      BY <1>2, <2>3, <2>5, <3>7 DEF InOrder
    <3> QED
      BY <3>5, <3>6, <3>8
  <2>6. CASE deferred' = Append(deferred, s) /\ overtaken' /\ mpc # "matched" /\ Listening
             /\ UNCHANGED queue
             /\ owed' = IF IsEvent(s) THEN owed \union {s} ELSE owed
    <3>1. /\ ToSet(deferred') = ToSet(deferred) \union {s}
          /\ IsInjective(deferred) /\ s \notin ToSet(deferred) => IsInjective(deferred')
      BY <1>1, <2>1, <2>6, AppendElements
    <3>2. OnTheWay' = OnTheWay \union {s}
      BY <2>3, <2>6, <3>1 DEF OnTheWay
    <3>3. /\ s \notin ToSet(queue) \union ToSet(deferred)
          /\ mpc = "send" => event # s
      BY <2>4 DEF OnTheWay
    <3>4. \A x \in OnTheWay' : x.nr <= sent'
      BY <1>1, <2>1, <2>3, <2>4, <3>2
    <3>5. OnceOnTheWay'
      BY <1>2, <2>3, <2>6, <3>1, <3>3, <3>4 DEF OnceOnTheWay
    <3>6. (Listens => AllThere)'
      BY <1>2, <2>3, <2>6, <3>2
    <3> QED
      BY <2>3, <2>6, <3>5, <3>6 DEF InOrder, Listening
  <2>7. CASE ~Listening /\ UNCHANGED <<queue, deferred, owed, overtaken>>
    <3>1. OnTheWay' = OnTheWay
      BY <2>3, <2>7 DEF OnTheWay
    <3>2. OnceOnTheWay' /\ InOrder'
      BY <1>2, <2>3, <2>4, <2>7, <3>1 DEF OnceOnTheWay, InOrder, Ordered
    <3> QED
      BY <2>3, <2>7, <3>2 DEF Listening
  <2> QED
    BY <2>2, <2>5, <2>6, <2>7 DEF SignalSent
<1>11. CASE DeferredDeliver
  <2>1. PICK i \in 1..Len(deferred) : /\ queue' = Append(queue, deferred[i])
                                     /\ deferred' = RemoveAt(deferred, i)
    BY <1>11 DEF DeferredDeliver
  <2>2. UNCHANGED <<mpc, done, conn, event, owed, overtaken, sent>>
    BY <1>11 DEF DeferredDeliver
  <2> DEFINE s == deferred[i]
  <2>3. s \in AllSignals /\ deferred # <<>>
    BY <1>1
  <2>4. /\ ToSet(deferred) = {s} \union ToSet(deferred')
        /\ IsInjective(deferred') /\ s \notin ToSet(deferred')
    BY <1>1, <1>2, <2>1, RemoveAtElements DEF OnceOnTheWay
  <2> HIDE DEF s
  <2>5. s \notin ToSet(queue) /\ (mpc = "send" => event # s)
    BY <1>2, <2>4 DEF OnceOnTheWay
  <2>6. ToSet(queue') = ToSet(queue) \union {s} /\ IsInjective(queue')
    BY <1>1, <1>2, <2>1, <2>3, <2>5, AppendElements DEF OnceOnTheWay, s
  <2>7. OnTheWay' = OnTheWay
    BY <2>2, <2>4, <2>6 DEF OnTheWay
  <2>8. OnceOnTheWay'
    BY <1>2, <2>2, <2>4, <2>5, <2>6, <2>7 DEF OnceOnTheWay
  <2>9. InOrder'
    BY <1>2, <2>2, <2>3 DEF InOrder
  <2> QED
    BY <1>2, <2>2, <2>7, <2>8, <2>9
<1> QED
  BY <1>4, <1>5, <1>6, <1>7, <1>8, <1>9, <1>10, <1>11 DEF Next

\* No sleep and no wake-up is lost, doubled or overtaken between logind and the agent
\* while the monitor listens, for any room in the channel and any number of signals.
THEOREM NoSleepIsLost == Spec => []NoneLost
<1>1. Init => SleepInv
  <2> SUFFICES ASSUME Init PROVE SleepInv
    OBVIOUS
  <2>1. ToSet(<<>>) = {} /\ IsInjective(<<>>) /\ Len(<<>>) = 0
    BY DEF ToSet, IsInjective
  <2>2. queue = <<>> /\ deferred = <<>> /\ mpc = "new" /\ sent = 0 /\ ~overtaken /\ OnTheWay = {}
    BY <2>1 DEF Init, OnTheWay
  <2>3. TypeOK /\ NoneLost
    BY <2>2 DEF TypeOK, PlaceOK, ChannelOK, NoneLost
  <2>4. OnceOnTheWay /\ InOrder
    BY <2>1, <2>2 DEF OnceOnTheWay, InOrder, Ordered
  <2> QED
    BY <2>3, <2>4 DEF SleepInv
<1>2. SleepInv => NoneLost
  BY DEF SleepInv
<1> QED
  BY <1>1, <1>2, TypeCorrect, SleepStep, PTL DEF Spec

=============================================================================
