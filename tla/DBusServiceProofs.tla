------------------------- MODULE DBusServiceProofs -------------------------
(***************************************************************************)
(* Proofs about the D-Bus service of the agent, for any number of          *)
(* properties, values and callers.                                         *)
(***************************************************************************)
EXTENDS DBusService, TLAPS

\* What the proofs need to know of the constants.
LEMMA OrderType ==
    /\ Len(Order) \in Nat /\ 1 \in 1..Len(Order)
    /\ \A i \in 1..Len(Order) : Order[i] \in Props
    /\ Initial \in [Props -> Values \union {Unknown}]
    /\ NoUpdate \in Props \X (Values \union {Unknown})
<1>1. Len(Order) \in Nat /\ 1 \in 1..Len(Order)
  BY ServiceAssumption
<1>2. \A i \in 1..Len(Order) : Order[i] \in Props
  BY ServiceAssumption
<1> QED
  BY <1>1, <1>2, ServiceAssumption DEF NoUpdate

\* The order reaches every property.
LEMMA OrderReachesAll == \A p \in Props : \E i \in 1..Len(Order) : p = Order[i]
  BY ServiceAssumption

\* The values before the first start fit the invariant.
LEMMA ServiceInitInv == ServiceInit => ServiceInv
<1> SUFFICES ASSUME ServiceInit PROVE ServiceInv
  OBVIOUS
<1> USE DEF ServiceInit
<1>1. ServiceTypeOK
  BY OrderType DEF ServiceTypeOK, Exported, Gone, NothingWanted
<1>2. OwnerInv /\ SetInv /\ PublishedCurrent /\ UnknownAfterStop
  BY DEF OwnerInv, SetInv, PublishedCurrent, UnknownAfterStop, Gone
<1> QED
  BY <1>1, <1>2 DEF ServiceInv

\* The next signal is about a property.
LEMMA SignalType ==
    ASSUME ServiceTypeOK PROVE Signal \in Props \X (Values \union {Unknown})
  BY OrderType DEF ServiceTypeOK, Signal

\* Steps of the service keep the types.
LEMMA ServiceType == ServiceTypeOK /\ [ServiceNext]_serviceVars => ServiceTypeOK'
<1> SUFFICES ASSUME ServiceTypeOK, [ServiceNext]_serviceVars PROVE ServiceTypeOK'
  OBVIOUS
<1> USE DEF ServiceTypeOK, Exported, Gone, NothingWanted
<1>1. CASE UNCHANGED serviceVars
  BY <1>1 DEF serviceVars
<1>2. CASE Start \/ Export
  BY <1>2, OrderType DEF Start, Export
<1>3. CASE AgentSets
  BY <1>3 DEF AgentSets, SetProperty
<1>4. CASE SetMust
  <2>1. props' \in [Props -> Values \union {Unknown}]
    BY <1>4, SignalType DEF SetMust
  <2>2. next' \in 1..Len(Order)
    BY <1>4 DEF SetMust
  <2> QED
    BY <1>4, <2>1, <2>2, OrderType DEF SetMust
<1>5. CASE TakesUpdate \/ Stop \/ DoneCase
  BY <1>5, OrderType DEF TakesUpdate, Stop, DoneCase
<1>6. CASE \E k \in Callers : CallReLogin(k) \/ TakesRequest(k) \/ ReLoginReturns(k)
  BY <1>6 DEF CallReLogin, TakesRequest, ReLoginReturns
<1>7. CASE ClosesRequest \/ Crash
  BY <1>7, OrderType DEF ClosesRequest, Crash
<1> QED
  BY <1>1, <1>2, <1>3, <1>4, <1>5, <1>6, <1>7 DEF ServiceNext, ServiceStep

\* The invariant is inductive: only Start and Stop set properties in their order,
\* and only the agent's own calls are between it and the goroutine.
LEMMA ServiceInvStep == ServiceInv /\ [ServiceNext]_serviceVars => ServiceInv'
<1> SUFFICES ASSUME ServiceInv, [ServiceNext]_serviceVars PROVE ServiceInv'
  OBVIOUS
<1>1. ServiceTypeOK /\ ServiceTypeOK'
  BY ServiceType DEF ServiceInv
<1>2. OwnerInv /\ SetInv /\ PublishedCurrent /\ UnknownAfterStop
  BY DEF ServiceInv
<1> SUFFICES OwnerInv' /\ SetInv' /\ PublishedCurrent' /\ UnknownAfterStop'
  BY <1>1 DEF ServiceInv
<1> USE DEF ServiceTypeOK, OwnerInv, SetInv, PublishedCurrent, UnknownAfterStop, Gone
<1>3. CASE UNCHANGED serviceVars
  BY <1>2, <1>3 DEF serviceVars, With
<1>4. CASE Start \/ Export \/ Crash
  <2>1. OwnerInv' /\ PublishedCurrent' /\ UnknownAfterStop'
    BY <1>1, <1>2, <1>4 DEF Start, Export, Crash
  <2>2. SetInv'
    <3>1. CASE Start
      BY <1>2, <3>1 DEF Start
    <3>2. CASE Export
      BY <1>2, <3>2 DEF Export
    <3>3. CASE Crash
      BY <3>3 DEF Crash
    <3> QED
      BY <1>4, <3>1, <3>2, <3>3
  <2> QED
    BY <2>1, <2>2
<1>5. CASE AgentSets
  <2>1. PICK p \in Props, v \in Values \union {Unknown} : SetProperty(p, v)
    BY <1>5 DEF AgentSets
  <2>2. OwnerInv' /\ SetInv' /\ UnknownAfterStop'
    BY <1>1, <1>2, <2>1 DEF SetProperty
  <2>3. PublishedCurrent'
    BY <1>1, <1>2, <2>1 DEF SetProperty, With
  <2> QED
    BY <2>2, <2>3
<1>6. CASE SetMust
  <2>1. CASE spc = "apply"
    BY <1>1, <1>2, <1>6, <2>1 DEF SetMust, Signal, With
  <2>2. CASE spc # "apply"
    <3> DEFINE v == IF spc = "starting" THEN Initial[Order[next]] ELSE Unknown
    <3>1. /\ spc \in {"starting", "stopping"}
          /\ props' = [props EXCEPT ![Order[next]] = v]
      BY <1>6, <2>2 DEF SetMust, Signal
    <3>2. next \in 1..Len(Order) /\ \A i \in 1..Len(Order) : Order[i] \in Props
      BY <1>1, OrderType
    <3>3. props'[Order[next]] = v
      BY <1>1, <3>1, <3>2
    <3>4. \A i \in 1..Len(Order) :
             props'[Order[i]] \in {props[Order[i]], v}
      BY <1>1, <3>1, <3>2
    <3>5. \A i \in 1..Len(Order) : Order[i] # Order[next] => props'[Order[i]] = props[Order[i]]
      BY <1>1, <3>1, <3>2
    <3>6. \A i \in 1..next :
             props'[Order[i]] = IF spc = "starting" THEN Initial[Order[i]] ELSE Unknown
      <4> SUFFICES ASSUME NEW i \in 1..next
                   PROVE  props'[Order[i]] = IF spc = "starting" THEN Initial[Order[i]]
                                                                 ELSE Unknown
        OBVIOUS
      <4>1. CASE Order[i] = Order[next]
        BY <3>3, <4>1
      <4>2. CASE Order[i] # Order[next]
        <5>1. i \in 1..next-1 /\ i \in 1..Len(Order)
          BY <3>2, <4>2, OrderType
        <5>2. props'[Order[i]] = props[Order[i]]
          BY <3>5, <4>2, <5>1
        <5> QED
          BY <1>2, <3>1, <5>1, <5>2
      <4> QED
        BY <4>1, <4>2
    <3>7. CASE next < Len(Order)
      <4>1. next' = next + 1 /\ UNCHANGED <<spc, owner, want, done>>
        <5>1. next # Len(Order)
          BY <3>2, <3>7, OrderType
        <5> QED
          BY <1>6, <2>2, <5>1 DEF SetMust
      <4>2. next' - 1 = next
        BY <3>2, <4>1
      <4>3. OwnerInv' /\ PublishedCurrent' /\ UnknownAfterStop'
        BY <1>2, <3>1, <4>1
      <4>4. SetInv'
        BY <1>2, <3>1, <3>6, <4>1, <4>2
      <4> QED
        BY <4>3, <4>4
    <3>8. CASE next = Len(Order)
      <4>1. \A p \in Props : props'[p] = IF spc = "starting" THEN Initial[p] ELSE Unknown
        BY <3>6, <3>8, OrderReachesAll
      <4>2. next' = 1 /\ UNCHANGED done
        BY <1>6, <2>2, <3>2, <3>8, OrderType DEF SetMust
      <4>3. CASE spc = "starting"
        <5>1. spc' = "run" /\ owner' = "idle" /\ want' = Initial
          BY <1>2, <1>6, <2>2, <3>8, <4>3, OrderType DEF SetMust
        <5>2. props' = Initial
          BY <1>1, <4>1, <4>3, OrderType
        <5> QED
          BY <1>2, <4>2, <4>3, <5>1, <5>2
      <4>4. CASE spc = "stopping"
        <5>1. spc' = "stopped" /\ owner' = "away"
          BY <1>6, <2>2, <3>8, <4>4, OrderType DEF SetMust
        <5> QED
          BY <4>1, <4>2, <4>4, <5>1
      <4> QED
        BY <3>1, <4>3, <4>4
    <3> QED
      BY <3>2, <3>7, <3>8, OrderType
  <2> QED
    BY <2>1, <2>2
<1>7. CASE TakesUpdate
  BY <1>1, <1>2, <1>7 DEF TakesUpdate, With
<1>8. CASE Stop \/ DoneCase
  <2>1. CASE Stop
    BY <1>2, <2>1 DEF Stop
  <2>2. CASE DoneCase
    <3>1. next' = 1 /\ 1..next'-1 = {}
      BY <1>2, <2>2 DEF DoneCase
    <3> QED
      BY <1>2, <2>2, <3>1 DEF DoneCase
  <2> QED
    BY <1>8, <2>1, <2>2
<1>9. CASE ClosesRequest \/ \E k \in Callers : CallReLogin(k) \/ TakesRequest(k) \/ ReLoginReturns(k)
  BY <1>1, <1>2, <1>9 DEF ClosesRequest, CallReLogin, TakesRequest, ReLoginReturns, With
<1> QED
  BY <1>3, <1>4, <1>5, <1>6, <1>7, <1>8, <1>9 DEF ServiceNext, ServiceStep

\* The invariant of the service.
THEOREM ServiceInvariant == ServiceSpec => []ServiceInv
  BY ServiceInitInv, ServiceInvStep, PTL DEF ServiceSpec

\* The bus shows what the agent set last, but for the updates under way, whatever
\* the properties and however often the agent is stopped, crashes and starts again.
THEOREM PropertiesAreCurrent == ServiceSpec => []PublishedCurrent
<1>1. ServiceInv => PublishedCurrent
  BY DEF ServiceInv
<1> QED
  BY <1>1, ServiceInvariant, PTL

\* An agent that has stopped leaves no property with a value.
THEOREM NothingLeft == ServiceSpec => []UnknownAfterStop
<1>1. ServiceInv => UnknownAfterStop
  BY DEF ServiceInv
<1> QED
  BY <1>1, ServiceInvariant, PTL

=============================================================================
