------------------------- MODULE ScheduleWindow_proofs -------------------------
(***************************************************************************)
(* Every execution belongs to the latest firing, for any crons, retry      *)
(* settings and time limits whose sum fits between two firings.            *)
(*                                                                         *)
(* The invariant chains the limits: an event is delivered at most one      *)
(* event age after its firing, what was delivered begins at most Lambda's  *)
(* event age after that, and an execution ends at most its timeout after   *)
(* it began.  An earlier firing is further away than the whole chain.      *)
(***************************************************************************)
EXTENDS ScheduleWindow, FiniteSetTheorems, TLAPS

ClockInv ==
    /\ firedAt <= now
    /\ now <= nextAt

\* The limits each item kept to when it got where it is.
ItemsInv ==
    /\ \A e \in pending : e.firing <= firing
    /\ \A i \in queued : i.firing <= firing /\ i.accepted <= i.fired + SCHEDULE_MAX_EVENT_AGE
    /\ \A x \in running :
          /\ x.of.firing <= firing
          /\ x.of.accepted <= x.of.fired + SCHEDULE_MAX_EVENT_AGE
          /\ x.began <= x.of.accepted + FunctionEventAge
          /\ now <= x.began + DURABLE_EXECUTION_TIMEOUT

\* An item of the latest firing, or of one that is out of reach.
Placed(number, fired) ==
    IF number = firing THEN fired = firedAt ELSE fired + Window < firedAt

\* When the window fits, the next firing is out of reach of this one.
ReachInv ==
    WindowFits =>
        /\ firing > 0 => firedAt + Window < nextAt
        /\ \A e \in pending : Placed(e.firing, e.fired)
        /\ \A i \in queued : Placed(i.firing, i.fired)
        /\ \A x \in running : Placed(x.of.firing, x.of.fired)

WInv == WindowTypeOK /\ ClockInv /\ ItemsInv /\ ReachInv

LEMMA GapType == \A mode \in Modes : Gap(mode) \in Int
<1> SUFFICES ASSUME NEW mode \in Modes PROVE Gap(mode) \in Int
  OBVIOUS
<1>1. Opposite(mode) \in Modes
  BY DEF Opposite, Modes
<1>2. Crons[mode] \in Int /\ Crons[Opposite(mode)] \in Int
  BY <1>1, CronsAssumption DEF DayMinutes
<1>3. \A difference \in Int : difference % 1440 \in Int
  OBVIOUS
<1>4. DayMinutes = 1440
  BY DEF DayMinutes
<1> QED BY <1>2, <1>3, <1>4 DEF Gap

LEMMA WindowType == Window \in Nat
BY RetryAssumption DEF Window

\* What is kept of an event is the same event with one more delivery.
LEMMA KeptType ==
    ASSUME NEW event \in Events, NEW e \in KeptAfter(event)
    PROVE  e \in Events /\ e.firing = event.firing /\ e.fired = event.fired
<1>1. /\ event.deliveries < SCHEDULE_RETRY_ATTEMPTS
      /\ e = [event EXCEPT !.deliveries = @ + 1]
  BY DEF KeptAfter
<1>2. event.deliveries + 1 \in 0 .. SCHEDULE_RETRY_ATTEMPTS
  BY <1>1, RetryAssumption DEF Events
<1> QED BY <1>1, <1>2 DEF Events

LEMMA WindowInitInv == WindowInit => WInv
BY RetryAssumption, WindowBounds
   DEF WindowInit, WInv, WindowTypeOK, ClockInv, ItemsInv, ReachInv, Modes

LEMMA FireInv == WInv /\ Fire => WInv'
<1> SUFFICES ASSUME WInv, Fire PROVE WInv'
  OBVIOUS
<1> DEFINE event == [firing |-> firing + 1, fired |-> now, deliveries |-> 0]
<1>1. PICK change \in GapChanges :
         /\ Gap(nextMode) + change > 0
         /\ nextAt' = now + Gap(nextMode) + change
  BY DEF Fire
<1>2. /\ now = nextAt /\ firing < MaxFirings /\ firing' = firing + 1
      /\ firedAt' = now /\ now' = now
      /\ pending' = pending \cup {event} /\ queued' = queued /\ running' = running
      /\ nextMode' = Opposite(nextMode) /\ executions' = 0
  BY DEF Fire
<1>3. /\ nextMode \in Modes /\ now \in Nat /\ firing \in 0 .. MaxFirings /\ firedAt \in Nat
      /\ pending \subseteq Events /\ queued \subseteq Invocations /\ running \subseteq Executions
  BY DEF WInv, WindowTypeOK
<1>4. Gap(nextMode) + change \in Nat /\ change \in Int /\ Gap(nextMode) \in Int
  BY <1>1, <1>3, GapType, GapChangesAssumption
<1>5. event \in Events
  BY <1>2, <1>3, RetryAssumption, WindowBounds DEF Events
<1>6. WindowTypeOK'
  <2>1. nextMode' \in Modes
    BY <1>2 DEF Opposite, Modes
  <2>2. nextAt' \in Nat
    BY <1>1, <1>3, <1>4
  <2>3. firing' \in 0 .. MaxFirings
    BY <1>2, <1>3, WindowBounds
  <2> QED BY <1>2, <1>3, <1>5, <2>1, <2>2, <2>3 DEF WindowTypeOK
<1>7. ClockInv'
  BY <1>1, <1>2, <1>3, <1>4 DEF ClockInv
<1>8. ItemsInv'
  <2>1. \A e \in pending' : e.firing <= firing'
    BY <1>2, <1>3 DEF WInv, ItemsInv, Events
  <2>2. \A i \in queued' : i.firing <= firing'
    BY <1>2, <1>3 DEF WInv, ItemsInv, Invocations
  <2>3. \A x \in running' : x.of.firing <= firing'
    BY <1>2, <1>3 DEF WInv, ItemsInv, Executions, Invocations
  <2> QED BY <1>2, <2>1, <2>2, <2>3 DEF WInv, ItemsInv
<1>9. ReachInv'
  <2> SUFFICES ASSUME WindowFits
               PROVE  /\ firedAt' + Window < nextAt'
                      /\ \A e \in pending' : Placed(e.firing, e.fired)'
                      /\ \A i \in queued' : Placed(i.firing, i.fired)'
                      /\ \A x \in running' : Placed(x.of.firing, x.of.fired)'
    BY DEF ReachInv, WindowFits
  <2>1. firedAt' + Window < nextAt'
    BY <1>1, <1>2, <1>3, <1>4, WindowType DEF WindowFits
  <2>2. ASSUME NEW number \in 1 .. MaxFirings, NEW fired \in Nat,
               number <= firing, Placed(number, fired)
        PROVE  Placed(number, fired)'
    <3>1. firing > 0 /\ firedAt + Window < now
      BY <1>2, <1>3, <2>2 DEF WInv, ReachInv
    <3>2. fired + Window < now
      BY <1>3, <2>2, <3>1, WindowType DEF Placed
    <3> QED BY <1>2, <1>3, <2>2, <3>2, WindowType DEF Placed, Window
  <2>3. \A e \in pending' : Placed(e.firing, e.fired)'
    <3> SUFFICES ASSUME NEW e \in pending' PROVE Placed(e.firing, e.fired)'
      OBVIOUS
    <3>1. CASE e = event
      BY <1>2, <3>1 DEF Placed
    <3>2. CASE e \in pending
      <4>1. e.firing \in 1 .. MaxFirings /\ e.fired \in Nat
        BY <1>3, <3>2 DEF Events
      <4>2. e.firing <= firing /\ Placed(e.firing, e.fired)
        BY <3>2 DEF WInv, ItemsInv, ReachInv
      <4> QED BY <2>2, <4>1, <4>2
    <3> QED BY <1>2, <3>1, <3>2
  <2>4. \A i \in queued' : Placed(i.firing, i.fired)'
    <3> SUFFICES ASSUME NEW i \in queued PROVE Placed(i.firing, i.fired)'
      BY <1>2
    <3>1. i.firing \in 1 .. MaxFirings /\ i.fired \in Nat
      BY <1>3 DEF Invocations
    <3>2. i.firing <= firing /\ Placed(i.firing, i.fired)
      BY DEF WInv, ItemsInv, ReachInv
    <3> QED BY <2>2, <3>1, <3>2
  <2>5. \A x \in running' : Placed(x.of.firing, x.of.fired)'
    <3> SUFFICES ASSUME NEW x \in running PROVE Placed(x.of.firing, x.of.fired)'
      BY <1>2
    <3>1. x.of.firing \in 1 .. MaxFirings /\ x.of.fired \in Nat
      BY <1>3 DEF Executions, Invocations
    <3>2. x.of.firing <= firing /\ Placed(x.of.firing, x.of.fired)
      BY DEF WInv, ItemsInv, ReachInv
    <3> QED BY <2>2, <3>1, <3>2
  <2> QED BY <2>1, <2>3, <2>4, <2>5
<1> QED BY <1>6, <1>7, <1>8, <1>9 DEF WInv
\* Delivery, run and retry keep the firing of an item, and add what its limit
\* allows to its age.
LEMMA DeliverInv ==
    ASSUME WInv, NEW event \in pending, Deliver(event)
    PROVE  WInv'
<1> DEFINE invocation == [firing |-> event.firing, fired |-> event.fired,
                          copy |-> event.deliveries, accepted |-> now, attempt |-> 0]
<1>1. /\ event \in Events /\ now \in Nat
      /\ now <= event.fired + SCHEDULE_MAX_EVENT_AGE
      /\ queued' = queued \cup {invocation}
      /\ UNCHANGED <<now, firing, firedAt, nextMode, nextAt, running, executions>>
  BY DEF Deliver, Deliverable, cronVars, WInv, WindowTypeOK
<1>2. pending' \subseteq pending \cup KeptAfter(event)
  BY DEF Deliver
<1>3. \A e \in pending' : e \in pending \/ (e \in Events /\ e.firing = event.firing /\ e.fired = event.fired)
  BY <1>1, <1>2, KeptType
<1>4. invocation \in Invocations
  BY <1>1, RetryAssumption DEF Invocations, Events
<1>5. WindowTypeOK'
  BY <1>1, <1>3, <1>4 DEF WInv, WindowTypeOK
<1>6. ClockInv'
  BY <1>1 DEF WInv, ClockInv
<1>7. ItemsInv'
  BY <1>1, <1>3 DEF WInv, ItemsInv
<1>8. ReachInv'
  BY <1>1, <1>3 DEF WInv, ReachInv, Placed, WindowFits
<1> QED BY <1>5, <1>6, <1>7, <1>8 DEF WInv

LEMMA DeliveryFailsInv ==
    ASSUME WInv, NEW event \in pending, DeliveryFails(event) \/ DropEvent(event)
    PROVE  WInv'
<1>1. event \in Events /\ UNCHANGED <<now, firing, firedAt, nextMode, nextAt, queued, running, executions>>
  BY DEF DeliveryFails, DropEvent, cronVars, WInv, WindowTypeOK
<1>2. pending' \subseteq pending \cup KeptAfter(event)
  BY DEF DeliveryFails, DropEvent
<1>3. \A e \in pending' : e \in pending \/ (e \in Events /\ e.firing = event.firing /\ e.fired = event.fired)
  BY <1>1, <1>2, KeptType
<1>4. WindowTypeOK'
  BY <1>1, <1>3 DEF WInv, WindowTypeOK
<1>5. ClockInv' /\ ItemsInv' /\ ReachInv'
  BY <1>1, <1>3 DEF WInv, ClockInv, ItemsInv, ReachInv, Placed, WindowFits
<1> QED BY <1>4, <1>5 DEF WInv

LEMMA BeginInv ==
    ASSUME WInv, NEW invocation \in queued, BeginExecution(invocation)
    PROVE  WInv'
<1> DEFINE execution == [of |-> invocation, began |-> now]
<1>1. /\ invocation \in Invocations /\ now \in Nat
      /\ now <= invocation.accepted + FunctionEventAge
      /\ queued' = queued \ {invocation} /\ running' = running \cup {execution}
      /\ UNCHANGED <<now, firing, firedAt, nextMode, nextAt, pending>>
      /\ executions' \in {executions, executions + 1}
  BY DEF BeginExecution, Runnable, cronVars, WInv, WindowTypeOK
<1>2. execution \in Executions
  BY <1>1 DEF Executions
<1>3. WindowTypeOK'
  BY <1>1, <1>2 DEF WInv, WindowTypeOK
<1>4. ClockInv'
  BY <1>1 DEF WInv, ClockInv
<1>5. ItemsInv'
  BY <1>1, RetryAssumption DEF WInv, ItemsInv
<1>6. ReachInv'
  BY <1>1 DEF WInv, ReachInv, Placed, WindowFits
<1> QED BY <1>3, <1>4, <1>5, <1>6 DEF WInv

LEMMA EndInv ==
    ASSUME WInv, NEW execution \in running,
           ExecutionSucceeds(execution) \/ ExecutionFails(execution)
    PROVE  WInv'
<1> DEFINE again == [execution.of EXCEPT !.attempt = @ + 1]
<1>1. /\ execution.of \in Invocations
      /\ running' = running \ {execution}
      /\ UNCHANGED <<now, firing, firedAt, nextMode, nextAt, pending, executions>>
  BY DEF ExecutionSucceeds, ExecutionFails, cronVars, WInv, WindowTypeOK, Executions
<1>2. \A i \in queued' : i \in queued \/ (i = again /\ execution.of.attempt < FunctionRetries)
  BY DEF ExecutionSucceeds, ExecutionFails
<1>3. execution.of.attempt < FunctionRetries => again \in Invocations
  <2> SUFFICES ASSUME execution.of.attempt < FunctionRetries PROVE again \in Invocations
    OBVIOUS
  <2>1. execution.of.attempt + 1 \in 0 .. FunctionRetries
    BY <1>1, RetryAssumption DEF Invocations
  <2> QED BY <1>1, <2>1 DEF Invocations
<1>4. /\ again.firing = execution.of.firing /\ again.fired = execution.of.fired
      /\ again.accepted = execution.of.accepted
  BY <1>1 DEF Invocations
<1>5. WindowTypeOK'
  BY <1>1, <1>2, <1>3 DEF WInv, WindowTypeOK
<1>6. ClockInv'
  BY <1>1 DEF WInv, ClockInv
<1>7. ItemsInv'
  BY <1>1, <1>2, <1>4 DEF WInv, ItemsInv
<1>8. ReachInv'
  BY <1>1, <1>2, <1>4 DEF WInv, ReachInv, Placed, WindowFits
<1> QED BY <1>5, <1>6, <1>7, <1>8 DEF WInv

LEMMA DropInvocationInv ==
    ASSUME WInv, NEW invocation \in queued, DropInvocation(invocation)
    PROVE  WInv'
BY DEF DropInvocation, cronVars, WInv, WindowTypeOK, ClockInv, ItemsInv, ReachInv, Placed, WindowFits

LEMMA AdvanceInv == WInv /\ Advance => WInv'
<1> SUFFICES ASSUME WInv, Advance PROVE WInv'
  OBVIOUS
<1>1. UNCHANGED <<firing, firedAt, nextMode, nextAt, pending, queued, running, executions>>
  BY DEF Advance, cronVars
<1>2. now \in Nat /\ nextAt \in Nat /\ firedAt \in Nat
  BY DEF WInv, WindowTypeOK
<1>3. now' \in Nat /\ now <= now' /\ now' <= nextAt
  BY <1>2, WindowBounds DEF Advance
<1>4. WindowTypeOK'
  BY <1>1, <1>3 DEF WInv, WindowTypeOK
<1>5. ClockInv'
  BY <1>1, <1>2, <1>3 DEF WInv, ClockInv
<1>6. ItemsInv'
  BY <1>1 DEF WInv, ItemsInv, Advance, Expires
<1>7. ReachInv'
  BY <1>1 DEF WInv, ReachInv, Placed, WindowFits
<1> QED BY <1>4, <1>5, <1>6, <1>7 DEF WInv

LEMMA WindowStepInv == WInv /\ [WindowNext]_windowVars => WInv'
<1> SUFFICES ASSUME WInv, [WindowNext]_windowVars PROVE WInv'
  OBVIOUS
<1>1. CASE Fire
  BY <1>1, FireInv
<1>2. CASE ServiceStep
  BY <1>2, DeliverInv, DeliveryFailsInv, BeginInv, DropInvocationInv, EndInv DEF ServiceStep
<1>3. CASE Advance
  BY <1>3, AdvanceInv
<1>4. CASE UNCHANGED windowVars
  BY <1>4 DEF windowVars, cronVars, WInv, WindowTypeOK, ClockInv, ItemsInv, ReachInv, Placed, WindowFits
<1> QED BY <1>1, <1>2, <1>3, <1>4 DEF WindowNext, Over

\* The chain of limits keeps what is still alive on the side of the latest firing.
LEMMA InReach == WInv => RunsWithinItsFiring
<1> SUFFICES ASSUME WInv, WindowFits
             PROVE  /\ \A execution \in running : execution.of.firing = firing
                    /\ \A invocation \in queued : Runnable(invocation) => invocation.firing = firing
                    /\ \A event \in pending : Deliverable(event) => event.firing = firing
  BY DEF RunsWithinItsFiring, OnlyTheLatestRuns
<1>1. now \in Nat /\ firedAt \in Nat /\ firedAt <= now
  BY DEF WInv, WindowTypeOK, ClockInv
<1>2. ASSUME NEW number, NEW fired \in Nat, Placed(number, fired), firedAt <= fired + Window
      PROVE  number = firing
  BY <1>1, <1>2, WindowType DEF Placed
<1>3. \A execution \in running : execution.of.firing = firing
  <2> SUFFICES ASSUME NEW execution \in running PROVE execution.of.firing = firing
    OBVIOUS
  <2>1. /\ execution.of.fired \in Nat /\ execution.of.accepted \in Nat /\ execution.began \in Nat
    BY DEF WInv, WindowTypeOK, Executions, Invocations
  <2>2. now <= execution.of.fired + Window
    BY <1>1, <2>1, RetryAssumption DEF WInv, ItemsInv, Window
  <2> QED BY <1>1, <1>2, <2>1, <2>2, WindowType DEF WInv, ReachInv
<1>4. \A invocation \in queued : Runnable(invocation) => invocation.firing = firing
  <2> SUFFICES ASSUME NEW invocation \in queued, Runnable(invocation)
               PROVE  invocation.firing = firing
    OBVIOUS
  <2>1. invocation.fired \in Nat /\ invocation.accepted \in Nat
    BY DEF WInv, WindowTypeOK, Invocations
  <2>2. now <= invocation.fired + Window
    BY <1>1, <2>1, RetryAssumption DEF Runnable, WInv, ItemsInv, Window
  <2> QED BY <1>1, <1>2, <2>1, <2>2, WindowType DEF WInv, ReachInv
<1>5. \A event \in pending : Deliverable(event) => event.firing = firing
  <2> SUFFICES ASSUME NEW event \in pending, Deliverable(event)
               PROVE  event.firing = firing
    OBVIOUS
  <2>1. event.fired \in Nat
    BY DEF WInv, WindowTypeOK, Events
  <2>2. now <= event.fired + Window
    BY <1>1, <2>1, RetryAssumption DEF Deliverable, Window
  <2> QED BY <1>1, <1>2, <2>1, <2>2, WindowType DEF WInv, ReachInv
<1> QED BY <1>3, <1>4, <1>5

\* WindowSpec keeps its types: no layer retries beyond its count.
THEOREM WindowTypeCorrect == WindowSpec => []WindowTypeOK
<1>1. WInv => WindowTypeOK
  BY DEF WInv
<1> QED BY <1>1, WindowInitInv, WindowStepInv, PTL DEF WindowSpec

\* For every crons, retries and limits of the two services: when the limits fit
\* between two firings, nothing of an earlier firing runs after the next one.
THEOREM FiringsDoNotOverlap == WindowSpec => []RunsWithinItsFiring
BY InReach, WindowInitInv, WindowStepInv, PTL DEF WindowSpec

-------------------------------------------------------------------------------
(* How many executions a firing has.  Each is known by the delivery it is   *)
(* for and the number of its attempt; what may still begin is what the      *)
(* items of the firing leave over, and each execution that begins takes its *)
(* own pair out of that.                                                    *)

Pairs == (0 .. SCHEDULE_RETRY_ATTEMPTS) \X (0 .. FunctionRetries)

\* The executions of the latest firing that may still begin.
Future ==
    {p \in Pairs :
        \/ \E e \in pending : e.firing = firing /\ e.deliveries <= p[1]
        \/ \E i \in queued : i.firing = firing /\ i.copy = p[1] /\ i.attempt <= p[2]
        \/ \E x \in running : x.of.firing = firing /\ x.of.copy = p[1] /\ x.of.attempt < p[2]}

\* A firing has one event, and each of its deliveries is in one place.
CopyInv ==
    /\ \A e, f \in pending : e.firing = firing /\ f.firing = firing => e = f
    /\ \A e \in pending, i \in queued :
          e.firing = firing /\ i.firing = firing => i.copy < e.deliveries
    /\ \A e \in pending, x \in running :
          e.firing = firing /\ x.of.firing = firing => x.of.copy < e.deliveries
    /\ \A i, j \in queued :
          i.firing = firing /\ j.firing = firing /\ i.copy = j.copy => i = j
    /\ \A x, y \in running :
          x.of.firing = firing /\ y.of.firing = firing /\ x.of.copy = y.of.copy => x = y
    /\ \A i \in queued, x \in running :
          i.firing = firing /\ x.of.firing = firing => i.copy # x.of.copy

CountInv ==
    executions + Cardinality(Future) <= (1 + SCHEDULE_RETRY_ATTEMPTS) * (1 + FunctionRetries)

BInv == WInv /\ CopyInv /\ CountInv

LEMMA PairsCount ==
    /\ IsFiniteSet(Pairs)
    /\ Cardinality(Pairs) = (1 + SCHEDULE_RETRY_ATTEMPTS) * (1 + FunctionRetries)
<1> DEFINE C == 0 .. SCHEDULE_RETRY_ATTEMPTS
           A == 0 .. FunctionRetries
<1>1. IsFiniteSet(C) /\ Cardinality(C) = 1 + SCHEDULE_RETRY_ATTEMPTS
  BY FS_Interval, RetryAssumption
<1>2. IsFiniteSet(A) /\ Cardinality(A) = 1 + FunctionRetries
  BY FS_Interval, RetryAssumption
<1> HIDE DEF C, A
<1>3. IsFiniteSet(C \X A) /\ Cardinality(C \X A) = Cardinality(C) * Cardinality(A)
  BY <1>1, <1>2, FS_Product
<1> QED BY <1>1, <1>2, <1>3 DEF Pairs, C, A

LEMMA FutureFinite == IsFiniteSet(Future) /\ Cardinality(Future) \in Nat
<1>1. Future \in SUBSET Pairs
  BY DEF Future
<1> QED BY <1>1, PairsCount, FS_Subset, FS_CardinalityType

\* A subset of what could still begin, and no execution more.
LEMMA CountKept ==
    ASSUME CountInv, executions \in Nat, executions' = executions, Future' \subseteq Future
    PROVE  CountInv'
<1>1. Cardinality(Future') <= Cardinality(Future) /\ Cardinality(Future') \in Nat
  BY FutureFinite, FS_Subset, FS_CardinalityType
<1> QED BY <1>1, FutureFinite, RetryAssumption DEF CountInv

LEMMA BoundInitInv == WindowInit => BInv
<1> SUFFICES ASSUME WindowInit PROVE BInv
  OBVIOUS
<1>1. Future = {} /\ executions = 0
  BY DEF WindowInit, Future
<1>2. Cardinality(Future) = 0
  BY <1>1, FS_EmptySet
<1>3. CountInv
  BY <1>1, <1>2, PairsCount, FS_CardinalityType DEF CountInv
<1>4. CopyInv
  BY DEF WindowInit, CopyInv
<1> QED BY <1>3, <1>4, WindowInitInv DEF BInv

LEMMA FireBound == BInv /\ Fire => CopyInv' /\ CountInv'
<1> SUFFICES ASSUME BInv, Fire PROVE CopyInv' /\ CountInv'
  OBVIOUS
<1> DEFINE event == [firing |-> firing + 1, fired |-> now, deliveries |-> 0]
<1>1. /\ firing \in Nat
      /\ firing' = firing + 1 /\ executions' = 0
      /\ pending' = pending \cup {event} /\ queued' = queued /\ running' = running
  BY WindowBounds DEF Fire, BInv, WInv, WindowTypeOK
<1>2. /\ \A e \in pending : e.firing # firing'
      /\ \A i \in queued : i.firing # firing'
      /\ \A x \in running : x.of.firing # firing'
  <2>1. \A number \in Nat : number <= firing => number # firing + 1
    BY <1>1
  <2>2. /\ \A e \in pending : e.firing \in Nat
        /\ \A i \in queued : i.firing \in Nat
        /\ \A x \in running : x.of.firing \in Nat
    BY WindowBounds DEF BInv, WInv, WindowTypeOK, Events, Invocations, Executions
  <2> QED BY <1>1, <2>1, <2>2 DEF BInv, WInv, ItemsInv
<1>3. CopyInv'
  BY <1>1, <1>2 DEF CopyInv
<1>4. Future' \in SUBSET Pairs
  BY DEF Future
<1>5. Cardinality(Future') <= Cardinality(Pairs) /\ Cardinality(Future') \in Nat
  BY <1>4, PairsCount, FS_Subset, FS_CardinalityType
<1>6. CountInv'
  BY <1>1, <1>5, PairsCount, RetryAssumption DEF CountInv
<1> QED BY <1>3, <1>6

LEMMA KeptDeliveries ==
    ASSUME NEW event \in Events, NEW e \in KeptAfter(event)
    PROVE  e.deliveries = event.deliveries + 1
BY DEF KeptAfter, Events

\* The events of the schedule: what it keeps has a delivery less to make.
LEMMA EventBound ==
    ASSUME BInv, NEW event \in pending,
           Deliver(event) \/ DeliveryFails(event) \/ DropEvent(event)
    PROVE  CopyInv' /\ CountInv'
<1> DEFINE invocation == [firing |-> event.firing, fired |-> event.fired,
                          copy |-> event.deliveries, accepted |-> now, attempt |-> 0]
<1>1. /\ event \in Events /\ event.deliveries \in Nat /\ executions \in Nat
      /\ UNCHANGED <<firing, running, executions>>
      /\ queued' \subseteq queued \cup {invocation}
      /\ invocation \notin queued' => queued' = queued
      /\ pending' \subseteq (pending \ {event}) \cup KeptAfter(event)
  BY RetryAssumption
  DEF Deliver, DeliveryFails, DropEvent, cronVars, BInv, WInv, WindowTypeOK, Events
<1>2. \A e \in pending' :
         \/ e \in pending /\ e # event
         \/ e.firing = event.firing /\ e.deliveries = event.deliveries + 1 /\ e \in KeptAfter(event)
  BY <1>1, KeptType, KeptDeliveries
<1>3. \A e, f \in KeptAfter(event) : e = f
  BY DEF KeptAfter
<1>4. \A i \in queued' : i \in queued \/ i = invocation
  BY <1>1
<1>5. /\ \A i \in queued : i.copy \in Nat
      /\ \A x \in running : x.of.copy \in Nat
      /\ \A e \in pending : e.deliveries \in Nat
  BY RetryAssumption DEF BInv, WInv, WindowTypeOK, Invocations, Executions, Events
<1>6. CopyInv'
  BY <1>1, <1>2, <1>3, <1>4, <1>5 DEF BInv, CopyInv
<1>7. Future' \subseteq Future
  <2> SUFFICES ASSUME NEW p \in Future' PROVE p \in Future
    OBVIOUS
  <2>1. p \in Pairs /\ p[1] \in Nat /\ p[2] \in Nat
    BY RetryAssumption DEF Future, Pairs
  <2>2. CASE \E e \in pending' : e.firing = firing /\ e.deliveries <= p[1]
    BY <1>1, <1>2, <2>1, <2>2 DEF Future
  <2>3. CASE \E i \in queued' : i.firing = firing /\ i.copy = p[1] /\ i.attempt <= p[2]
    BY <1>1, <1>4, <2>1, <2>3 DEF Future
  <2>4. CASE \E x \in running' : x.of.firing = firing /\ x.of.copy = p[1] /\ x.of.attempt < p[2]
    BY <1>1, <2>1, <2>4 DEF Future
  <2> QED BY <1>1, <2>2, <2>3, <2>4 DEF Future
<1>8. CountInv'
  BY <1>1, <1>7, CountKept DEF BInv
<1> QED BY <1>6, <1>8

\* An execution that begins uses its pair up.
LEMMA BeginBound ==
    ASSUME BInv, NEW invocation \in queued, BeginExecution(invocation)
    PROVE  CopyInv' /\ CountInv'
<1> DEFINE execution == [of |-> invocation, began |-> now]
           pair == <<invocation.copy, invocation.attempt>>
<1>1. /\ invocation \in Invocations /\ executions \in Nat
      /\ queued' = queued \ {invocation} /\ running' = running \cup {execution}
      /\ firing' = firing /\ pending' = pending
      /\ executions' = IF invocation.firing = firing THEN executions + 1 ELSE executions
  BY DEF BeginExecution, Runnable, cronVars, BInv, WInv, WindowTypeOK
<1>2. /\ invocation.copy \in Nat /\ invocation.attempt \in Nat /\ pair \in Pairs
      /\ execution.of = invocation
  BY <1>1, RetryAssumption DEF Invocations, Pairs
<1>3. \A x \in running' : x \in running \/ x = execution
  BY <1>1
<1> HIDE DEF execution
<1>4. CopyInv'
  BY <1>1, <1>2, <1>3 DEF BInv, CopyInv
<1>5. Future' \subseteq Future
  <2> SUFFICES ASSUME NEW p \in Future' PROVE p \in Future
    OBVIOUS
  <2>1. p \in Pairs /\ p[1] \in Nat /\ p[2] \in Nat
    BY RetryAssumption DEF Future, Pairs
  <2>2. CASE \E x \in running' : x.of.firing = firing /\ x.of.copy = p[1] /\ x.of.attempt < p[2]
    BY <1>1, <1>2, <1>3, <2>1, <2>2 DEF Future
  <2> QED BY <1>1, <2>1, <2>2 DEF Future
<1>6. CASE invocation.firing # firing
  BY <1>1, <1>4, <1>5, <1>6, CountKept DEF BInv
<1>7. CASE invocation.firing = firing
  <2>1. pair \in Future
    BY <1>2, <1>7 DEF Future
  <2>2. pair \notin Future'
    <3>1. /\ \A e \in pending : e.firing = firing => ~ (e.deliveries <= pair[1])
          /\ \A i \in queued' : i.firing = firing => i.copy # pair[1]
          /\ \A x \in running : x.of.firing = firing => x.of.copy # pair[1]
      <4>1. \A e \in pending : e.deliveries \in Nat
        BY RetryAssumption DEF BInv, WInv, WindowTypeOK, Events
      <4> QED BY <1>1, <1>2, <1>7, <4>1 DEF BInv, CopyInv
    <3>2. ~ (execution.of.attempt < pair[2])
      BY <1>2
    <3> QED BY <1>1, <1>3, <3>1, <3>2 DEF Future
  <2> HIDE DEF pair
  <2>3. Future' \subseteq Future \ {pair}
    BY <1>5, <2>2
  <2>4. IsFiniteSet(Future \ {pair}) /\ Cardinality(Future \ {pair}) = Cardinality(Future) - 1
    BY <2>1, FutureFinite, FS_RemoveElement
  <2>5. Cardinality(Future') <= Cardinality(Future) - 1 /\ Cardinality(Future') \in Nat
    BY <2>3, <2>4, FS_Subset, FS_CardinalityType
  <2>6. CountInv'
    BY <1>1, <1>7, <2>5, FutureFinite, RetryAssumption DEF BInv, CountInv
  <2> QED BY <1>4, <2>6
<1> QED BY <1>6, <1>7

\* A retry has the pairs that its execution left over.
LEMMA EndBound ==
    ASSUME BInv, NEW execution \in running,
           ExecutionSucceeds(execution) \/ ExecutionFails(execution)
    PROVE  CopyInv' /\ CountInv'
<1> DEFINE again == [execution.of EXCEPT !.attempt = @ + 1]
<1>1. /\ execution.of \in Invocations /\ executions \in Nat
      /\ running' = running \ {execution}
      /\ UNCHANGED <<firing, pending, executions>>
      /\ \A i \in queued' : i \in queued \/ i = again
  BY DEF ExecutionSucceeds, ExecutionFails, cronVars, BInv, WInv, WindowTypeOK, Executions
<1>2. /\ again.firing = execution.of.firing /\ again.copy = execution.of.copy
      /\ again.attempt = execution.of.attempt + 1 /\ execution.of.attempt \in Nat
  BY <1>1, RetryAssumption DEF Invocations
<1> HIDE DEF again
<1>3. CopyInv'
  BY <1>1, <1>2 DEF BInv, CopyInv
<1>4. Future' \subseteq Future
  <2> SUFFICES ASSUME NEW p \in Future' PROVE p \in Future
    OBVIOUS
  <2>1. p \in Pairs /\ p[1] \in Nat /\ p[2] \in Nat
    BY RetryAssumption DEF Future, Pairs
  <2>2. CASE \E i \in queued' : i.firing = firing /\ i.copy = p[1] /\ i.attempt <= p[2]
    BY <1>1, <1>2, <2>1, <2>2 DEF Future
  <2> QED BY <1>1, <2>1, <2>2 DEF Future
<1> QED BY <1>1, <1>3, <1>4, CountKept DEF BInv

LEMMA BoundStepInv == BInv /\ [WindowNext]_windowVars => BInv'
<1> SUFFICES ASSUME BInv, [WindowNext]_windowVars PROVE CopyInv' /\ CountInv'
  BY WindowStepInv DEF BInv
<1>1. CASE Fire
  BY <1>1, FireBound
<1>2. ASSUME UNCHANGED <<firing, pending, running, executions>>, queued' \subseteq queued
      PROVE  CopyInv' /\ CountInv'
  <2>1. Future' \subseteq Future
    BY <1>2 DEF Future
  <2>2. executions \in Nat
    BY DEF BInv, WInv, WindowTypeOK
  <2> QED BY <1>2, <2>1, <2>2, CountKept DEF BInv, CopyInv
<1>3. CASE ServiceStep
  <2>1. ASSUME NEW invocation \in queued, DropInvocation(invocation) PROVE CopyInv' /\ CountInv'
    BY <1>2, <2>1 DEF DropInvocation, cronVars
  <2> QED BY <1>3, <2>1, EventBound, BeginBound, EndBound DEF ServiceStep
<1>4. CASE Advance \/ UNCHANGED windowVars
  BY <1>2, <1>4 DEF Advance, windowVars, cronVars
<1> QED BY <1>1, <1>3, <1>4 DEF WindowNext, Over

\* For every number of retries of the two services: a firing leads to no more
\* executions than the product of what each of them may try.
THEOREM ExecutionsAreBounded == WindowSpec => []ExecutionsBounded
<1>1. ASSUME BInv PROVE ExecutionsBounded
  <2>1. executions \in Nat
    BY <1>1 DEF BInv, WInv, WindowTypeOK
  <2> QED BY <1>1, <2>1, FutureFinite, RetryAssumption DEF BInv, CountInv, ExecutionsBounded
<1> QED BY <1>1, BoundInitInv, BoundStepInv, PTL DEF WindowSpec
-------------------------------------------------------------------------------
(* The window fits. *)

LEMMA DefaultGaps ==
    ASSUME Crons = DefaultCrons
    PROVE  Gap("start") = 675 /\ Gap("stop") = 765
<1>1. /\ Crons["start"] = 470 /\ Crons["stop"] = 1145
      /\ Opposite("start") = "stop" /\ Opposite("stop") = "start"
  BY DEF DefaultCrons, Modes, Opposite
<1>2. DayMinutes = 1440
  BY DEF DayMinutes
<1>3. ASSUME NEW x \in Int, x - 675 = 0 PROVE x % 1440 = 675
  BY <1>3
<1>4. ASSUME NEW x \in Int, x + 675 = 0 PROVE x % 1440 = 765
  BY <1>4
<1>5. ASSUME NEW m \in Int, NEW n \in Int, m = 470, n = 1145
      PROVE  (n - m) % 1440 = 675 /\ (m - n) % 1440 = 765
  <2>1. n - m \in Int /\ (n - m) - 675 = 0 /\ m - n \in Int /\ (m - n) + 675 = 0
    BY <1>5
  <2> QED BY <1>3, <1>4, <2>1
<1>6. Crons["start"] \in Int /\ Crons["stop"] \in Int
  BY <1>1
<1> QED BY <1>1, <1>2, <1>5, <1>6 DEF Gap

\* The construct, of its limits: "On the default schedule the shorter gap is 11
\* hours 15 minutes", so a run "finishes before the opposite cron".  With two hours
\* for deliveries and for an execution, Lambda may keep an event for up to 6 h 14
\* min, a change of clocks included; it does so for 6 h.
THEOREM DefaultsDoNotOverlap ==
    ASSUME Crons = DefaultCrons,
           \A change \in GapChanges : change >= -60,
           SCHEDULE_MAX_EVENT_AGE = 120,
           DURABLE_EXECUTION_TIMEOUT = 120,
           FunctionEventAge < 375
    PROVE  WindowSpec => []OnlyTheLatestRuns
<1>1. WindowFits
  <2> SUFFICES ASSUME NEW mode \in Modes, NEW change \in GapChanges
               PROVE  Gap(mode) + change > Window
    BY DEF WindowFits
  <2>1. Gap(mode) >= 675 /\ Gap(mode) \in Int
    BY DefaultGaps, GapType DEF Modes
  <2>2. change >= -60 /\ change \in Int
    BY GapChangesAssumption
  <2>3. Window < 615 /\ Window \in Nat
    BY RetryAssumption DEF Window
  <2> QED BY <2>1, <2>2, <2>3
<1>2. WInv => OnlyTheLatestRuns
  BY <1>1, InReach DEF RunsWithinItsFiring
<1> QED BY <1>2, WindowInitInv, WindowStepInv, PTL DEF WindowSpec
===============================================================================
