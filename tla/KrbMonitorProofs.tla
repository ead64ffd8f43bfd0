-------------------------- MODULE KrbMonitorProofs --------------------------
(***************************************************************************)
(* Proofs about the monitors of the Kerberos files, for any contents of    *)
(* the file and any size of the event queue.                               *)
(***************************************************************************)
EXTENDS KrbMonitor, TLAPS

USE MonitorAssumption

\* The queue of events keeps its type and its bound.
QueueOK == events \in Seq({"own", "other"}) /\ Len(events) <= MaxEvents

LEMMA QueueStep == QueueOK /\ [Next]_vars => QueueOK'
<1> SUFFICES ASSUME QueueOK, [Next]_vars PROVE QueueOK'
  OBVIOUS
<1> USE DEF QueueOK
<1>1. CASE UNCHANGED vars
  BY <1>1 DEF vars
<1>2. CASE Start \/ StartFails \/ ConsumerTakes \/ Stop
  BY <1>2 DEF Start, StartFails, ConsumerTakes, Stop
<1>3. CASE HandleInitial \/ HandleEvent \/ SendAborts
  <2>1. events # <<>> => Tail(events) \in Seq({"own", "other"}) /\ Len(Tail(events)) <= MaxEvents
    OBVIOUS
  <2> QED
    BY <1>3, <2>1 DEF HandleInitial, HandleEvent, SendAborts
<1>4. CASE DoneCase \/ WatcherCloses
  <2>1. events' = <<>>
    BY <1>4 DEF DoneCase, WatcherCloses, Closes
  <2>2. <<>> \in Seq({"own", "other"}) /\ Len(<<>>) <= MaxEvents
    OBVIOUS
  <2> QED
    BY <2>1, <2>2, Zenon
<1>5. CASE FileChanges \/ OtherFileChanges
  <2>1. \/ events' = events
        \/ Len(events) < MaxEvents /\ \E e \in {"own", "other"} : events' = Append(events, e)
    BY <1>5 DEF FileChanges, OtherFileChanges
  <2> QED
    BY <2>1
<1> QED
  BY <1>1, <1>2, <1>3, <1>4, <1>5 DEF Next, MonitorStep

\* No step of the monitor, its file or its consumer takes a variable out of its
\* type.
THEOREM TypeCorrect == Spec => []TypeOK
<1>1. Init => TypeOK
  <2>1. Init => QueueOK
    BY DEF Init, QueueOK
  <2> QED
    BY <2>1, Zenon DEF Init, TypeOK, QueueOK
<1>2. TypeOK /\ [Next]_vars => TypeOK'
  <2> SUFFICES ASSUME TypeOK, [Next]_vars PROVE TypeOK'
    OBVIOUS
  <2> USE DEF TypeOK
  <2>1. events' \in Seq({"own", "other"}) /\ Len(events') <= MaxEvents
    BY QueueStep DEF QueueOK
  <2>2. CASE UNCHANGED vars
    BY <2>2 DEF vars, monitorVars
  <2>3. CASE Start \/ StartFails \/ ConsumerTakes \/ Stop
    BY <2>3 DEF Start, StartFails, ConsumerTakes, Stop
  <2>4. CASE HandleInitial \/ HandleEvent
    BY <2>1, <2>4, Zenon DEF HandleInitial, HandleEvent, HandleFileEvent
  <2>5. CASE SendAborts \/ DoneCase \/ WatcherCloses
    BY <2>1, <2>5, Zenon DEF SendAborts, DoneCase, WatcherCloses, Closes
  <2>6. CASE FileChanges \/ OtherFileChanges
    BY <2>1, <2>6, Zenon DEF FileChanges, OtherFileChanges, monitorVars
  <2> QED
    BY <2>2, <2>3, <2>4, <2>5, <2>6 DEF Next, MonitorStep
<1> QED
  BY <1>1, <1>2, PTL DEF Spec

-----------------------------------------------------------------------------
\* NothingMissed is not inductive: an update that is being sent has to be that of
\* the file as well, and the folder has to be watched all the time.
WatchInv ==
    /\ mpc \in {"initial", "select", "send"} => watched
    /\ mpc \in {"select", "send"} /\ ~Pending /\ ~lost /\ file # Bad => last = file

\* The event of another file is none of the events of the file that are still to come.
LEMMA TailPending ==
    ASSUME events \in Seq({"own", "other"}), events # <<>>, Head(events) = "other",
           events' = Tail(events), Pending
    PROVE  Pending'
<1>1. PICK i \in 1..Len(events) : events[i] = "own"
  BY DEF Pending
<1>2. i # 1
  BY <1>1
<1>3. i-1 \in 1..Len(events') /\ events'[i-1] = "own"
  BY <1>1, <1>2
<1> QED
  BY <1>3 DEF Pending

\* Each step keeps what the monitor has and what the queue still owes it together.
LEMMA WatchInvStep == TypeOK /\ WatchInv /\ [Next]_vars => WatchInv'
<1> SUFFICES ASSUME TypeOK, WatchInv, [Next]_vars PROVE WatchInv'
  OBVIOUS
<1> USE DEF TypeOK, WatchInv
<1>1. CASE UNCHANGED vars
  BY <1>1 DEF vars, monitorVars, Pending
<1>2. CASE Start \/ StartFails \/ ConsumerTakes \/ Stop
  BY <1>2 DEF Start, StartFails, ConsumerTakes, Stop, Pending
<1>3. CASE MonitorStep
  <2>1. ASSUME events # <<>>, Head(events) = "other", events' = Tail(events)
        PROVE  Pending => Pending'
    BY <2>1, TailPending
  <2>2. CASE HandleInitial
    BY <2>2 DEF HandleInitial, HandleFileEvent
  <2>3. CASE HandleEvent /\ Head(events) = "own"
    BY <2>3 DEF HandleEvent, HandleFileEvent
  <2>4. CASE HandleEvent /\ Head(events) = "other"
    BY <2>1, <2>4 DEF HandleEvent
  <2>5. CASE SendAborts \/ DoneCase
    BY <2>5 DEF SendAborts, DoneCase, Closes, Pending
  <2> QED
    BY <1>3, <2>2, <2>3, <2>4, <2>5 DEF MonitorStep, HandleEvent
<1>4. CASE WatcherCloses
  BY <1>4 DEF WatcherCloses, Closes
<1>5. CASE FileChanges
  <2>1. CASE watched /\ Len(events) < MaxEvents
    <3>1. events'[Len(events')] = "own" /\ Len(events') \in 1..Len(events')
      BY <1>5, <2>1 DEF FileChanges
    <3>2. Pending'
      BY <3>1 DEF Pending
    <3> QED
      BY <1>5, <3>2 DEF FileChanges, monitorVars
  <2>2. CASE ~watched \/ Len(events) = MaxEvents
    BY <1>5, <2>2 DEF FileChanges, monitorVars
  <2> QED
    BY <1>5, <2>1, <2>2 DEF FileChanges
<1>6. CASE OtherFileChanges
  <2>1. Pending => Pending'
    <3>1. \A i \in 1..Len(events) : i \in 1..Len(events') /\ events'[i] = events[i]
      BY <1>6 DEF OtherFileChanges
    <3> QED
      BY <3>1 DEF Pending
  <2> QED
    BY <1>6, <2>1 DEF OtherFileChanges, monitorVars
<1> QED
  BY <1>1, <1>2, <1>3, <1>4, <1>5, <1>6 DEF Next

\* A monitor that waits with no event pending has sent what the file holds.
THEOREM NothingIsMissed == Spec => []NothingMissed
<1>1. Init => WatchInv
  BY DEF Init, WatchInv
<1>2. WatchInv => NothingMissed
  BY DEF WatchInv, NothingMissed
<1> QED
  BY <1>1, <1>2, WatchInvStep, TypeCorrect, PTL DEF Spec

-----------------------------------------------------------------------------
\* Between two updates the consumer has the last one; while one is offered it
\* differs from the last one that was taken.
ConsumerInv ==
    ~done => /\ mpc \in {"new", "initial", "select"} => received = last
             /\ mpc = "send" => received # last

\* Each step keeps the monitor's idea of what the consumer has.
LEMMA ConsumerInvStep == TypeOK /\ ConsumerInv /\ [Next]_vars => ConsumerInv'
<1> SUFFICES ASSUME TypeOK, ConsumerInv, [Next]_vars PROVE ConsumerInv'
  OBVIOUS
<1> USE DEF TypeOK, ConsumerInv
<1>1. CASE UNCHANGED vars
  BY <1>1 DEF vars, monitorVars
<1>2. CASE Start \/ StartFails \/ ConsumerTakes \/ Stop
  BY <1>2 DEF Start, StartFails, ConsumerTakes, Stop
<1>3. CASE MonitorStep
  BY <1>3 DEF MonitorStep, HandleInitial, HandleEvent, HandleFileEvent, SendAborts,
              DoneCase, Closes
<1>4. CASE WatcherCloses
  BY <1>4 DEF WatcherCloses, Closes
<1>5. CASE FileChanges \/ OtherFileChanges
  BY <1>5 DEF FileChanges, OtherFileChanges, monitorVars
<1> QED
  BY <1>1, <1>2, <1>3, <1>4, <1>5 DEF Next

\* What the monitor knows of its consumer is true all the time.
LEMMA ConsumerInvariant == Spec => [](TypeOK /\ ConsumerInv)
<1>1. Init => ConsumerInv
  BY DEF Init, ConsumerInv
<1> QED
  BY <1>1, ConsumerInvStep, TypeCorrect, PTL DEF Spec

\* What the consumer has is what the monitor compares the file with.
THEOREM ConsumerIsUpToDate == Spec => []ConsumerHasLast
<1>1. ConsumerInv => ConsumerHasLast
  BY DEF ConsumerInv, ConsumerHasLast
<1> QED
  BY <1>1, ConsumerInvariant, PTL

\* No update is taken twice in a row.
THEOREM NothingIsRepeated == Spec => NoRepeat
<1>1. ConsumerInv /\ [Next]_vars => [ConsumerTakes /\ ~done => received' # received]_vars
  BY DEF ConsumerInv, ConsumerTakes
<1> QED
  BY <1>1, ConsumerInvariant, PTL DEF Spec, NoRepeat

-----------------------------------------------------------------------------
\* Each step of the monitor is one of an event source, or none.
THEOREM IsEventSource == Spec => SourceSafe
<1> DEFINE phase == CASE mpc \in {"initial", "select"} -> "idle"
                      [] mpc = "send" -> "offering"
                      [] OTHER -> mpc
<1>1. Init => Source!Init
  BY DEF Init, Source!Init
<1>2. TypeOK /\ [Next]_vars => [Source!Next]_Source!sourceVars
  <2> SUFFICES ASSUME TypeOK, [Next]_vars
               PROVE  [Source!Next]_Source!sourceVars
    OBVIOUS
  <2> USE DEF TypeOK, Source!Next, Source!sourceVars
  <2>1. CASE UNCHANGED vars
    BY <2>1 DEF vars, monitorVars
  <2>2. CASE Start \/ StartFails
    BY <2>2 DEF Start, StartFails, Source!Start
  <2>3. CASE HandleInitial \/ HandleEvent
    BY <2>3 DEF HandleInitial, HandleEvent, HandleFileEvent, Source!Offer
  <2>4. CASE ConsumerTakes
    BY <2>4 DEF ConsumerTakes, Source!Take
  <2>5. CASE SendAborts
    BY <2>5 DEF SendAborts, Source!Withdraw
  <2>6. CASE DoneCase \/ WatcherCloses
    BY <2>6 DEF DoneCase, WatcherCloses, Closes, Source!Close
  <2>7. CASE Stop
    BY <2>7 DEF Stop, Source!Stop
  <2>8. CASE FileChanges \/ OtherFileChanges
    BY <2>8 DEF FileChanges, OtherFileChanges, monitorVars
  <2> QED
    BY <2>1, <2>2, <2>3, <2>4, <2>5, <2>6, <2>7, <2>8 DEF Next, MonitorStep
<1> QED
  BY <1>1, <1>2, TypeCorrect, PTL DEF Spec, SourceSafe, Source!Safe

=============================================================================
