----------------------------- MODULE ScheduleWindow -----------------------------
(***************************************************************************)
(* What one firing of a cron may lead to, and for how long.  The start and *)
(* the stop schedule fire in turn.  EventBridge Scheduler delivers the     *)
(* event of a firing to the alias of the function, and delivers it again   *)
(* when a delivery fails.  Lambda queues each delivery it accepts, runs a  *)
(* durable execution for it, and runs another when that one fails.  Both   *)
(* services stop retrying after some attempts, or when their event is too  *)
(* old; the two ages are not the same.  Time is in minutes.                *)
(***************************************************************************)
EXTENDS RunningScheduleWait

CONSTANTS
    Crons,                      \* minute of the day of the cron of each mode
    GapChanges,                 \* what a weekend or a change of clocks adds to a gap
    SCHEDULE_RETRY_ATTEMPTS,
    SCHEDULE_MAX_EVENT_AGE,
    DURABLE_EXECUTION_TIMEOUT,
    FunctionRetries,            \* retries of a failed execution by Lambda
    FunctionEventAge,           \* age at which Lambda drops an event
    Tick,                       \* bound: the steps in which time moves
    MaxFirings                  \* bound: firings in a behaviour

DayMinutes == 24 * 60

ASSUME CronsAssumption == Crons \in [Modes -> 0 .. DayMinutes - 1]
ASSUME GapChangesAssumption == GapChanges \subseteq Int
ASSUME RetryAssumption ==
    /\ SCHEDULE_RETRY_ATTEMPTS \in Nat /\ FunctionRetries \in Nat
    /\ SCHEDULE_MAX_EVENT_AGE \in Nat /\ FunctionEventAge \in Nat
    /\ DURABLE_EXECUTION_TIMEOUT \in Nat
ASSUME WindowBounds == Tick \in Nat \ {0} /\ MaxFirings \in Nat

VARIABLES
    now,
    firing,     \* number of the latest firing, 0 before the first
    firedAt,    \* when that was
    nextMode,   \* the cron that fires next
    nextAt,     \* when it does
    pending,    \* events EventBridge Scheduler has still to deliver
    queued,     \* invocations Lambda accepted and has still to run
    running,    \* durable executions
    executions  \* executions begun for the latest firing

cronVars   == <<firing, firedAt, nextMode, nextAt>>
windowVars == <<now, cronVars, pending, queued, running, executions>>

-------------------------------------------------------------------------------
\* The crons of a deployment that sets none.
DefaultCrons == [mode \in Modes |-> IF mode = "start" THEN 7 * 60 + 50 ELSE 19 * 60 + 5]

Opposite(mode) == IF mode = "start" THEN "stop" ELSE "start"

\* From the cron of a mode to that of the other one.
Gap(mode) == (Crons[Opposite(mode)] - Crons[mode]) % DayMinutes

WindowInit ==
    /\ now = 0
    /\ firing = 0
    /\ firedAt = 0
    /\ nextMode \in Modes
    /\ nextAt = 0
    /\ pending = {}
    /\ queued = {}
    /\ running = {}
    /\ executions = 0

Fire ==
    /\ now = nextAt
    /\ firing < MaxFirings
    /\ firing' = firing + 1
    /\ firedAt' = now
    /\ nextMode' = Opposite(nextMode)
    /\ \E change \in GapChanges :
          /\ Gap(nextMode) + change > 0
          /\ nextAt' = now + Gap(nextMode) + change
    /\ pending' = pending \cup {[firing |-> firing + 1, fired |-> now, deliveries |-> 0]}
    /\ executions' = 0
    /\ UNCHANGED <<now, queued, running>>

\* Mutated form: the first delivery is not counted.
KeptAfter_oneMore(event) ==
    IF event.deliveries <= SCHEDULE_RETRY_ATTEMPTS
    THEN {[event EXCEPT !.deliveries = @ + 1]}
    ELSE {}

\* What the schedule keeps of an event after a delivery that was not confirmed.
KeptAfter(event) ==
    IF event.deliveries < SCHEDULE_RETRY_ATTEMPTS
    THEN {[event EXCEPT !.deliveries = @ + 1]}
    ELSE {}

\* Mutated form: the age of the event is not looked at.
Deliverable_anyAge(event) == event \in pending

Deliverable(event) ==
    /\ event \in pending
    /\ now <= event.fired + SCHEDULE_MAX_EVENT_AGE

\* Lambda accepts the event.  When its answer is lost, the schedule does not
\* know that and delivers the event again.
Deliver(event) ==
    /\ Deliverable(event)
    /\ queued' = queued \cup {[firing   |-> event.firing,
                               fired    |-> event.fired,
                               copy     |-> event.deliveries,
                               accepted |-> now,
                               attempt  |-> 0]}
    /\ \/ pending' = pending \ {event}
       \/ pending' = (pending \ {event}) \cup KeptAfter(event)
    /\ UNCHANGED <<now, cronVars, running, executions>>

\* Lambda refuses the event, or cannot be reached.
DeliveryFails(event) ==
    /\ Deliverable(event)
    /\ pending' = (pending \ {event}) \cup KeptAfter(event)
    /\ UNCHANGED <<now, cronVars, queued, running, executions>>

\* The event is too old to be delivered.
DropEvent(event) ==
    /\ event \in pending
    /\ now > event.fired + SCHEDULE_MAX_EVENT_AGE
    /\ pending' = pending \ {event}
    /\ UNCHANGED <<now, cronVars, queued, running, executions>>

Runnable(invocation) ==
    /\ invocation \in queued
    /\ now <= invocation.accepted + FunctionEventAge

\* The first execution of an invocation may be delayed as a retry may: Lambda
\* throttles it.
BeginExecution(invocation) ==
    /\ Runnable(invocation)
    /\ queued' = queued \ {invocation}
    /\ running' = running \cup {[of |-> invocation, began |-> now]}
    /\ executions' = IF invocation.firing = firing THEN executions + 1 ELSE executions
    /\ UNCHANGED <<now, cronVars, pending>>

\* Mutated form: only retries are ever dropped.
DropInvocation_retries(invocation) ==
    /\ invocation \in queued
    /\ invocation.attempt > 0
    /\ now > invocation.accepted + FunctionEventAge
    /\ queued' = queued \ {invocation}
    /\ UNCHANGED <<now, cronVars, pending, running, executions>>

DropInvocation(invocation) ==
    /\ invocation \in queued
    /\ now > invocation.accepted + FunctionEventAge
    /\ queued' = queued \ {invocation}
    /\ UNCHANGED <<now, cronVars, pending, running, executions>>

ExecutionSucceeds(execution) ==
    /\ execution \in running
    /\ running' = running \ {execution}
    /\ UNCHANGED <<now, cronVars, pending, queued, executions>>

\* Mutated form: the attempts are not counted.
ExecutionFails_uncounted(execution) ==
    /\ execution \in running
    /\ running' = running \ {execution}
    /\ queued' = queued \cup {execution.of}
    /\ UNCHANGED <<now, cronVars, pending, executions>>

\* The handler throws, or the execution reaches its timeout.
ExecutionFails(execution) ==
    /\ execution \in running
    /\ running' = running \ {execution}
    /\ queued' = IF execution.of.attempt < FunctionRetries
                 THEN queued \cup {[execution.of EXCEPT !.attempt = @ + 1]}
                 ELSE queued
    /\ UNCHANGED <<now, cronVars, pending, executions>>

Quiet == pending = {} /\ queued = {} /\ running = {}

\* Mutated form: an execution has no time limit.
Expires_never(execution) == now + Tick

Expires(execution) == execution.began + DURABLE_EXECUTION_TIMEOUT

\* Time does not move past the next cron, nor past the end of an execution.
Advance ==
    /\ now < nextAt
    /\ now' = IF Quiet \/ now + Tick > nextAt THEN nextAt ELSE now + Tick
    /\ \A execution \in running : now' <= Expires(execution)
    /\ UNCHANGED <<cronVars, pending, queued, running, executions>>

\* The behaviour ends with the last firing that is looked at.
Over ==
    /\ firing = MaxFirings
    /\ now = nextAt
    /\ UNCHANGED windowVars

ServiceStep ==
    \/ \E event \in pending : Deliver(event) \/ DeliveryFails(event) \/ DropEvent(event)
    \/ \E invocation \in queued : BeginExecution(invocation) \/ DropInvocation(invocation)
    \/ \E execution \in running : ExecutionSucceeds(execution) \/ ExecutionFails(execution)

WindowNext == Fire \/ ServiceStep \/ Advance \/ Over

WindowSpec == WindowInit /\ [][WindowNext]_windowVars

\* Time passes, and the services get on with what they have.
FairWindowSpec == WindowSpec /\ WF_windowVars(ServiceStep \/ Advance)

-------------------------------------------------------------------------------
(* Properties. *)

Events == [firing : 1 .. MaxFirings, fired : Nat, deliveries : 0 .. SCHEDULE_RETRY_ATTEMPTS]

Invocations ==
    [firing : 1 .. MaxFirings, fired : Nat, copy : 0 .. SCHEDULE_RETRY_ATTEMPTS,
     accepted : Nat, attempt : 0 .. FunctionRetries]

Executions == [of : Invocations, began : Nat]

\* Type invariant.
WindowTypeOK ==
    /\ now \in Nat
    /\ firing \in 0 .. MaxFirings
    /\ firedAt \in Nat
    /\ nextMode \in Modes
    /\ nextAt \in Nat
    /\ pending \subseteq Events
    /\ queued \subseteq Invocations
    /\ running \subseteq Executions
    /\ executions \in Nat

\* The longest time from a firing to the end of its last execution.
Window == SCHEDULE_MAX_EVENT_AGE + FunctionEventAge + DURABLE_EXECUTION_TIMEOUT

WindowFits ==
    \A mode \in Modes, change \in GapChanges : Gap(mode) + change > Window

\* Every execution belongs to the latest firing: a stop never runs after the next
\* start has fired, nor a start after the next stop.
OnlyTheLatestRuns == \A execution \in running : execution.of.firing = firing

\* "A failed stop does not run again after the next morning's start": when the
\* crons are further apart than both retries and the execution can last, every
\* execution belongs to the latest firing, and what else is left of an earlier
\* firing is too old to be run.
RunsWithinItsFiring ==
    WindowFits =>
        /\ OnlyTheLatestRuns
        /\ \A invocation \in queued : Runnable(invocation) => invocation.firing = firing
        /\ \A event \in pending : Deliverable(event) => event.firing = firing

\* Two layers retry: an event is delivered, and what was delivered is run, a
\* limited number of times; in all no more than the product of the two.  That is
\* the bound the two settings give, and it is more than the construct's comment
\* says: RetriedAtMostTwice does not hold.
ExecutionsBounded ==
    executions <= (1 + SCHEDULE_RETRY_ATTEMPTS) * (1 + FunctionRetries)

\* The work of every firing ends, however often its deliveries and executions
\* fail (FairWindowSpec): the two layers together do not retry for ever.
EveryFiringEnds == <>[]Quiet

\* The construct: "A failed schedule invocation is retried at most twice", so a
\* firing has three executions at most.
RetriedAtMostTwice == executions <= 3

\* The construct goes on: "and only while the original event is less than 2 hours
\* old".
RetriedWhileEventIsYoung ==
    \A execution \in running :
        execution.of.attempt > 0 =>
            execution.began <= execution.of.fired + SCHEDULE_MAX_EVENT_AGE
===============================================================================
