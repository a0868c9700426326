# Verification of the RDS database running scheduler

This directory holds TLA+ models of the running-schedule Lambda, the TLC
configurations that check them on small instances, and TLAPS proofs of the most
important results for every value of the constants. Line numbers refer to
`src/src/funcs/running-schedule.lambda.ts` ("lambda") unless a file is named.

## 1. The system

EventBridge Scheduler fires a start cron and a stop cron. Each firing starts a
*durable execution* of one Lambda function: a function whose `context.step`,
`context.wait`, `context.map` and `runInChildContext` record their results in a
checkpoint log. The execution is spread over many *invocations*. An invocation
ends when it is done, when everything it does is waiting (it is suspended), or
when it dies; the next one runs the same code from its first line, and each step
that is in the log returns at once.

| Component | State | Operations | Correct when |
|---|---|---|---|
| Wait decisions (`core/running-schedule-wait.ts`) | none | `decideResourceAction`, `hasWaitBudget`, `nextWaitStep`, `resolveResourceWait` | one decision per status, mode and budget; no interval begun that does not fit |
| Processing of one resource (lambda 308-470, 583-627) | the log of the child context; `iteration`, `elapsedWaitSeconds`; the resource in RDS | describe, start/stop, wait, report a failure, post to Slack | budget kept across replays, commands justified, success observed, reports true |
| Schedule run and handler (lambda 515-661) | the log of the execution, the children of `context.map` | validation, five steps, map, `throwIfError`, failure log | every target attempted before failing, one Slack thread, failures logged, ends in time |
| Discovery and deduplication (lambda 169-236, 548-562, `core/running-schedule-targets.ts`, `core/running-schedule-discovery.ts`) | recorded regions and searches, pages read so far | region choice, paged search, cluster-priority filter | nothing missed, no duplicate, no member beside its cluster, nothing else dropped |
| Shared settings (`settings/consts.ts`) | constants | - | both sides agree |
| Schedules and retries (`rds-database-running-scheduler.ts` 319-334, 422-434, 525-567) | events, queued invocations and executions in the services | two crons, delivery with retries and an age, retries of the function, a timeout | no execution is left when the next cron fires; the two layers of retries stay bounded |
| Executions that overlap | a resource in RDS, and what each execution last saw of it | the loops of several executions on one resource | each keeps its own promise; they do not undo each other for ever; the last to look decides |
| Construct (`rds-database-running-scheduler.ts`) | none at run time | `resolveSlackNotification`, `resolveResourceWait`, `resolveTargetRegions`; environment, schedule input, tag condition, grant | what it deploys the handler accepts; what a run finds its role may control |
| Stack, generated function construct, `index.ts`, error types, Slack formatting, client cache | none | - | - |

How they interact. The schedules call the function with a mode and a tag. The
handler calls Secrets Manager, EC2, the Resource Groups Tagging API and RDS
inside steps; discovery hands a list of ARNs to deduplication, and the recorded
result of that to `context.map`, which runs at most `MAX_CONCURRENT_RESOURCES`
child contexts. A child loops over `nextWaitStep`. Children share nothing but the
places of the map and the timestamp of the first Slack message. Failures travel
up as exceptions, and out as log markers that CloudWatch filters match.

What is hard here:

- **Replay.** `iteration` and `elapsedWaitSeconds` are locals; every invocation
  rebuilds them from the log. Names of steps carry the iteration.
- **At-least-once steps.** A call whose reply or checkpoint is lost is made again:
  the start or stop command (439-455) and the Slack messages (327, 569, 606).
- **Stale observations.** Between `describe` and the command the status may change;
  between discovery and processing the account may.
- **Limits.** A budget counted in whole intervals, a queue in front of ten places,
  and one fixed timeout for the execution.
- **Partial failure.** One resource, one Slack message or one page fails while the
  rest must go on; an error raised while reporting an error replaces it.
- **Retries in two services.** EventBridge Scheduler delivers an event again, Lambda
  runs a failed execution again; each has its own count and its own age.
- **Overlap.** Nothing keeps two executions apart: a delivery whose answer was lost
  makes two of one firing, and crons that are close make a start and a stop meet.

## 2. Modules

| Module | What it models |
|---|---|
| `RunningScheduleWait` | the pure decisions; a thrown error is a step of kind `throw` |
| `ResourceProcessing` | the child context of one resource with its log, invocation and world |
| `ResourceControl` | abstract: one uninterrupted watch of a resource, without log or crashes |
| `ScheduleRun` | one execution: steps, thread, map with limited places, failure log, time |
| `RunControl` | abstract: what an execution promises, without steps, replays, Slack and time |
| `ChildControl` | abstract: the turns, the waits and the end of one child, without log, places or time |
| `RunningScheduleDiscovery` | the pure region choice, used by `TargetDiscovery` and `SchedulerConfig` |
| `TargetDiscovery` | regions, paged searches, deduplication, restarts, a changing account |
| `DiscoveryControl` | abstract: one search of each region and one look at all of it, without pages, lists or restarts |
| `ScheduleWindow` | crons, deliveries, retries and executions of a firing, with their ages |
| `OverlappingRuns` | several executions that share one resource |
| `SchedulerConfig` | props, synthesis, environment and schedule input, and how a run reads them |
| `MC*` | values of the constants for TLC |
| `*_proofs` | inductive invariants and theorems about the module they are named after |

`ResourceProcessing`, `OverlappingRuns` and `ScheduleRun` share the decisions of
`RunningScheduleWait`. `ResourceProcessing` and each run of `OverlappingRuns` implement
`ResourceControl`, `ScheduleRun` implements `RunControl`, `TargetDiscovery` implements
`DiscoveryControl`. `ChildControl` is implemented twice, by `ResourceProcessing` and by each
child of `ScheduleRun`: a bound that both stay within, and no more than that.
`ScheduleWindow` tells how many
executions there may be at a time, `OverlappingRuns` what they do to a resource.

Operators named `X_something` with the comment "Mutated form" are deliberately
wrong variants of `X`. Nothing uses them; putting one in the place of `X` must
make TLC find the property violated that it is listed with in `PROJECT.json`,
which shows that the property depends on that piece of code.

### ResourceProcessing

State is in three parts. The *log* (`described`, `commanded`, `waits`, `posted`,
`settled`) only grows. The *invocation* (`pc`, `iteration`,
`elapsedWaitSeconds`, `result`) is set back by `StartOver` when an invocation
dies (`Crash`) or is suspended (`WaitElapses`). The *world* (`status`, `calls`,
`markers`, `messages`) is what RDS, CloudWatch and Slack have, and is never taken
back. Each durable operation has an action that runs it and records it
(`Describe`, `FinishCommand`, `WaitElapses`, `FinishPost`), one that replays it
from the log (`ReplayDescribe`, `ReplayCommand`, `ReplayWait`, `ReplayPost`), and
for calls with an effect one whose result never reaches the log
(`AttemptCommand`, `AttemptPost`). Code between two awaits runs inside the action
before it: `Proceed` is `nextWaitStep` and what follows it, `LeaveLoop` the
`catch` of the child with the marker it writes. `StatusDrifts` changes the status
without the program. The pure step `get-identifier` (377) is left out: it returns
the parts of the ARN. Error texts and message layout are left out.

`calls` records each call with the iteration it was made in and the status the
resource had; sets suffice, because every property is about whether such a call
was ever made.

The marker of a failure is written in the same step of the model that records the failed
step or decides to give up, as no await is between them. Whether `context.logger` is silent
while an invocation replays is left out: `markers` is a set. The construct asks for timeout
notices only together with Slack (411-414 there), and so does `Init`.

### ResourceControl

`Look`, `Command`, `Rest`, `Conclude`. `ResourceProcessing` implements it with
`seen` = the newest entry of `described`, `rested` = every observation has been
waited for, `spent` = number of elapsed waits times the interval, `verdict` =
`settled`. All of it is read off the log, so crashes, suspensions and replays are
stuttering steps: with them a resource is controlled as by one invocation that
never stops. A repeated command after a lost reply is a second `Command` step,
allowed while the latest look justifies it.

### ScheduleRun

One variable per fact the handler holds or the service keeps. `After` is the order
of the steps. `FailRun` writes the marker and `Rethrow` lets the error out: an
invocation may die in between. The five names in `Steps` stand for the steps up to the
map; `get-resources` stands for one step per region (`TargetDiscovery` has them
separately), and the discovered targets are a number.

A child is reduced to what its run time and its messages depend on: the decision of each
turn (`Check`, `CheckFails`), its waits (`Resume`), the message of a success (`PostChild`,
600-628) and the notice of a timeout (`PostNotice`, 319-349). Both are posted under the
timestamp the handler holds (`Delivers`), and an attempt that counts as failed may have
been delivered. `config` says whether Slack is on and whether it is told of timeouts; the
construct asks for notices only together with Slack, and so does `RunInit`.

Time is in seconds, and everything that is awaited takes some:

- A step of the handler takes one of `StepSeconds`, retries included, failed ones too
  (`Takes`). Nothing else runs meanwhile.
- A *turn* of a child (the start or replay of the invocation, one describe, and the command
  if one is due, with their retries) takes one of `CallSeconds`, and so does each of its
  two messages. `wake` is when it ends. The last turn, failed turns and messages take
  time as the others do. Children take theirs side by side: `Advance` moves the clock to the
  first end of a call or a wait. When no call is under way the invocation is suspended and
  replays.
- A wait takes `Interval`.
- Code between two awaits takes no time, nor does the replay of a recorded step of the
  handler; the replay of a child is in the turn that follows it.
- A crash loses what the step under way has taken so far, which is any part of it, and
  starts the calls of the children again. Waits are timers of the service and go on.
- `TimeOut` cuts a run at `ExecutionTimeout`, in a step of the handler as well.

`LimitsAssumption` says that some step and some call are the longest, as steps have
finitely many retries and calls have time limits. It does not say how long.

### RunControl

`Plan` or `NothingToDo`, `Begin` and `Settle` of a target, `Alarm`, then `Succeed` or
`Fail`; `Stop` is the service's timeout. An alarm is raised before any target is
touched or when all are settled, never between. `ScheduleRun` implements it with
`plan` = the recorded number of targets, `fate` = what the children are known to have
come to, `alarmed` = `logged`. Steps that only record, replays, suspensions and
crashes are stuttering steps.

### ChildControl

`Pause`, `Resume`, `Announce`, and the two ends `Return` and `Throw`. A child of
`ScheduleRun` has neither a log nor a resource. `ChildControl` bounds both it and the loop
in `ResourceProcessing`: neither has turns, waits or ends that it has no room for. That one
implements the other does not follow, and there is no time in `ChildControl`.
`ScheduleRun` implements it with the state and the waited seconds of the child at the
place `Watched`, which is any place; a queued child has not begun its first check, and the
notice of a timeout is part of the check that throws.
`ResourceProcessing` implements it with `Stage`, which reads off the log whether the child
waits, posts or has ended. Invocations, replays and the command are stuttering steps
there; the places and the clock are in `ScheduleRun`.

### DiscoveryControl

`Choose`, `Search`, `List`, `Fail`, and `AccountChanges`. A search takes all at once what has
kept its tag since the run began, and may take or leave what has not. `Fail` is possible
before the regions are chosen, and after the searches only when instances and clusters
were found together, for only then are instances described. `TargetDiscovery` implements
it with `plan` = `searchRegions`, `hits` = the elements of each recorded search, and the
outcome that its `pc` tells; pages, replays and restarts are stuttering steps. A call
whose attempts are used up is a failed step in `ScheduleRun`, not here.

### TargetDiscovery

`found[i]` is the recorded result of the search in `searchRegions[i]`.
`discoveredResources` and `searches` are the handler's own list and its place in the
`for` loop: `Restart` drops them, and `ReplaySearch` pushes each recorded result again.
A page is any set of at most `PageSize` tagged resources that the search has not
returned yet: that pages of one search do not repeat a resource is assumed of the service
(`Remaining`). Deduplication walks the list by index (`looked`) as lines 176-186 do.
`targets` is a set: nothing depends on the order in which the map receives them, and
that nothing is listed twice is `NoTargetTwice`.
`steady` remembers what carried the tag all along, for `NothingMissed`.
`WorldChanges` tags, untags and deletes resources and changes the enabled
regions. A deleted resource is untagged at once; that a search may still return
it for a while would make `MemberMissing` more frequent and nothing else.
`MemberMissing` fails the step at once, though the SDK retries it: a deleted
instance does not come back within the retries.

### ScheduleWindow

Time is in minutes, and `Fire` happens when a cron says so: start and stop in turn, with
`Gap` minutes between them, and `GapChanges` for what a change of clocks takes away or a
weekend adds. An event of a firing stays in `pending` while the schedule may deliver it
(`Deliver`, `DeliveryFails`, `DropEvent`). A delivery that Lambda took but that the
schedule believes lost stays there too, so one firing can have several invocations
(`copy`). `queued` is Lambda's own queue, from which `BeginExecution` takes an invocation
unless it is too old (`DropInvocation`); `ExecutionFails` puts it back with `attempt`
counted up. `Expires` bounds an execution by its timeout.

The two ages are two constants, because they are two things. `SCHEDULE_MAX_EVENT_AGE`
is what the construct sets on the schedule targets (534, 556). `FunctionEventAge` is how
long Lambda keeps an event it accepted; the construct sets retries for the function
(428) and no age. `WindowFits` says that a gap is longer than both ages and the timeout
together, which is true of the default crons with Lambda's default of six hours:
2 h + 6 h + 2 h against 11 h 15 min, or 10 h 15 min when the clocks change.

### OverlappingRuns

`LookAt`, `Decide`, `CommandSucceeds`, `CommandFails`, `GiveUp` and `Rest` are the loop of
`processing`, one place in it (`at`) for each run; the log of each is left out, as
`ResourceProcessing` shows that it makes no difference. RDS takes a call only in the
status that the mode moves the resource away from (`Accept`), so a run whose look is
outdated is refused, and tries again until its attempts are used up. A run may be for
either mode: duplicates and retries have the same one, crons that are too close
opposite ones.

`SidesAssumption` says that RDS by itself turns neither a stopped resource into a
running one nor the other way round. It leaves out that RDS starts an instance that has
been stopped for seven days; such a start is a foreign change, which `ResourceProcessing`
allows (`Drift`), and no run can exclude it after its last look.

### SchedulerConfig

`Synthesize` is the constructor as far as configuration goes: its three validations,
the environment it writes, the grant on the secret and the tag key in the schedule
input. `ReadEnvironment` is the beginning of `runSchedule`. The two validations of
the wait settings and of the regions are written down separately, as they are in
the code, so that their agreement is a result and not an assumption. An optional
prop is a set with at most one element. `ScheduleInputs` is what both schedules send,
`rdsResourceTagCondition` the condition under which the role may start and stop a
resource, so that what a search finds can be compared with what may be controlled
(`Found`, `Permitted`). What is not a string or not JSON cannot come
out of the construct and is not modelled. `DeployedIsAccepted` names one exception
found while modelling: an empty `tagKey` is deployed and refused in every run.
`FoundMayBeControlled` names another: with an empty `tagValues` a run finds every
resource that has the key, and may control none of them.

### Outside of the repository

The durable SDK, Lambda, EventBridge Scheduler, RDS, Slack and the tagging API are
modelled from how the code uses them (the entries marked external in `PROJECT.json`). Assumptions: a
step runs at least once and its recorded result is final; steps have finitely many
retries, each of limited time; `context.map` starts its items in order and settles every one
before it returns, for which there is the comment at 634-635 and nothing else in the
repository, so `FailsAfterAll`, `SuccessMeansAll` and `KeepsPromise` rest on that comment; the
pages of a search do not repeat a resource, on which `NoTargetTwice` rests; RDS takes a start
only of a stopped resource and a stop only of an available one; a failed execution is retried by Lambda
under its settings for asynchronous invocations.

## 3. What TLC checks

| Run | Instance and why it is enough | Shows |
|---|---|---|
| `resource_safety` | six statuses (both stable ones, a transition each way, one the code cannot handle, deletion), drift in both directions, round and round, settings <1,1> (one wait, maximum = interval) and <2,5> (two waits, interval does not divide), two crashes, both types, all Slack settings; 2.5 M states | all safety of one resource, that the loop loses nothing and does not go round in circles, both refinements, and that it ends although the status may change for ever |
| `resource_safe_again` | one setting, one crash, a status that only RDS and maintenance change | the README's "Safe to run again" is not true of a lost reply |
| `schedule_safety` | three targets on two places (a queue), two waits each, steps of 1 s, turns and messages of 0 or 1 s, a limit of 16 s that one batch with all steps and a crash stays under (15 s) and two do not (23 s), one crash, two first messages, the last target watched, which has to queue; 2.4 M states | safety of one execution, that it loses nothing and does not go round in circles, both refinements, and that it returns or throws by itself |
| `schedule_limit` | the real 6900 s and 7200 s, three targets on two places, calls that take no time | the wait limit does not fire first when targets queue |
| `schedule_logged` | two targets on one place, limit in reach | a timed-out execution is not logged |
| `discovery_safety` | clusters of equal name in two regions with a member each, a lone instance, pages of two, two changes, two restarts, accepted and refused region lists; 1.1 M states | the target list is right, and pages and restarts do not show in it |
| `discovery_stops` | the same account | a deleted instance fails the whole run |
| `config_agreement` | every combination of wait values around 0, the defaults and 6900, five region lists, all Slack settings, tag key and values given or empty | construct and handler agree |
| `schedule_window` | two firings of the default crons, either first, a gap an hour shorter or not, one delivery retry, two function retries, the ages of the construct and of Lambda, time in steps of 120 min | no execution crosses a firing, executions are bounded, all ends |
| `window_retry_count` | one firing, the settings as they are | one event is executed more than three times |
| `window_retry_age` | the same | the age of two hours does not hold for the retries of a failed run |
| `overlapping_runs` | two runs in every combination of modes, two waits each, two attempts of a command, maintenance and storage optimization | their commands are bounded, each keeps its promise and leads on, the last to look decides, both end |

Bounds: `MaxCrashes`, `MaxTargets`, `MaxParents`, `MaxChanges`, `MaxRestarts`,
`PageSize`, `Tick`, `MaxFirings` are constants. `Tick` = 120 min divides the ages and the
timeout, so every limit is reached exactly and passed. `schedule_window` has one
delivery retry where the construct has two, which still lets a firing have two
invocations with three executions each; the theorem of section 4 is for any number.
Two runs are enough to overlap; the theorems about them are for any number, too. Two
crashes let an invocation die while it replays an earlier death. Iterations need no bound: the budget gives one. Suspensions do not
count as crashes, so every wait may begin a new invocation.

Properties of one resource: `GivesUpOnlyWhenSpent` (no interval that fits is given
away), `CommandJustified` and `CallsFollowLog` (what RDS may
receive, and when), `SuccessIsObserved` (no success without an observation after
the last command), `ReportsAgree` (markers and messages over all invocations),
`LoopLeadsOn` (no step takes back what is recorded, and each that is neither a crash nor an
attempt without a record adds to the log within the maximum wait or brings the replay
nearer to its end), `ImplementsControl`, `ActsAsChild` (the budget from the other side: an
interval begins only when it fits), `EventuallySettles`.
`ReportsAgree` says nothing of the messages of a resource that ended with a failed
step, because such a resource may have been announced by an attempt whose reply
was lost.

Properties of an execution: `FailsAfterAll`, `SuccessMeansAll`, `OneThread`,
`FailureLogged` (also: no alarm of a run that goes on to succeed), `RunTimeBounded`
(a run takes no longer than its steps, its batches one after the other and what was done
again; a batch has the maximum wait, `Max div Interval + 1` turns and a message),
`EveryStepLeadsOn` (a run keeps what it has
and does not go round in circles), `KeepsPromise` and `ChildIsControlled` (the
refinements), `EventuallyReturns` (a run that fits in the timeout, `RunFits`, is not ended
by it). `OneThread` is about the messages of successes and the notices of timeouts.
Properties of discovery: `JustMembersDropped`, `NothingMissed`, `NoTargetTwice`,
`DiscoveryIsControlled`.
Properties of the configuration: `DeployedIsAccepted`, `RegionsMeanWhatPropsSay`,
`FoundMayBeControlled`, `SlackNeedsGrant`. Properties of a firing: `RunsWithinItsFiring`
(when the window fits, what is left of an earlier firing is too old to run),
`ExecutionsBounded` (the product of the two layers of retries: what the settings give, nine
with those of the construct, and not the three that its comment gives, see below),
`EveryFiringEnds`.
Properties of overlapping executions: `CommandsBounded`, `LastLookHolds`,
`RunIsControlled`, `OverlapLeadsOn` (each step of a run leads that run on and none back,
whatever status the others made it find), `AllRunsEnd`.

Fairness. `FairSpec`, `FairRunSpec` and `FairSharedSpec` ask for weak fairness of the
code's own steps and of elapsing timers: the service invokes an execution again after a
suspension or a crash, and the retries of a step are finite, so the step ends. In
`FairSharedSpec` each run has this fairness for itself, as each is an execution of its own.
`FairWindowSpec` asks that the services get on with what they have and that time passes.
Nothing is asked of the status of a resource, nor that a cron fires. Crashes are bounded
in number.

### Disagreements with the documentation

Each is a run expected to be violated; the traces are short.

1. *Safe to run again* (`src/README.md:221`). A start is sent, the reply is lost,
   the resource becomes available, the step runs again: RDS receives a start of an
   available resource. RDS refuses it, and when the retries end the same way the
   resource is reported as failed although it reached its target.
2. *This limit fires first* (`settings/consts.ts:16`). Holds while all targets have
   a place. A queued target starts its own maximum wait late, and the execution
   times out before that limit. The reading in which the comment is right is proved
   (`WaitLimitFiresFirst`): no more targets than places, and calls that together take less
   than the 300 seconds between the two limits.
3. *Logged for every failed execution* (`rds-database-running-scheduler.ts:346`).
   The execution timeout runs no handler code.
4. *A failed resource does not stop the others* (498). True in the map, not in the
   deduplication step before it.
5. *Retried only while the original event is less than 2 hours old*
   (`rds-database-running-scheduler.ts:379-381`; `src/README.md:222` counts runs that fail
   among what is retried). The age is set on the schedule targets and ends deliveries.
   The retries of a run that failed are Lambda's, for which the template has two
   attempts and no age (`test/__snapshots__/stack.test.ts.snap:177-186`). In the trace a run
   fails early and its retry, which Lambda delays, begins four hours after the event. The
   conclusion that the comment draws, no stop after the next start, holds all the same for
   the default crons: `RunsWithinItsFiring`.
6. *Retried at most twice* (the same comment, and `src/README.md:27`). The function has
   two retries (428) and the schedule target has two of its own (533, 555). In the trace the
   answer of Lambda to a delivery is lost, the event is delivered again, and the first
   delivery fails and is retried twice: four executions of one event.
   `ExecutionsBounded` holds with nine.

## 4. What is proved

Each theorem is for every value of the constants that satisfies the assumptions named
in its module. None of the invariants is inductive as it stands; each proof has one
invariant that is, with a lemma for each action.

### One resource

`ResourceProcessing_proofs`, `ResourceControl_proofs`, with lemmas on the decisions in
`RunningScheduleWait_proofs`. Assumed: the five statuses the code knows are
there, no status is called like an internal mark, every setting passes
`resolveResourceWait`.

`Inductive` (`IInv`), `TypeCorrect`, `BudgetTheorem`, `GiveUpTheorem`,
`CommandTheorem`, `SuccessTheorem`, `ReportTheorem`, `CallsTheorem`,
`LoopAlwaysLeadsOn`, and the refinements `Refinement` (`Spec => ImplementsControl`) and
`LoopActsAsChild`.

The properties speak of the log, but a step takes its
decision on `iteration` and `elapsedWaitSeconds`, which a crash sets back, and the
failure of a resource is known only in `result`. `IInv` has four parts:

- `TypeOK`;
- `LogInv`: every wait in the log was ready (its observation asked for a pause, and
  a command, if one was due, is recorded as done); an observation was made only
  when all earlier iterations had been waited for; every call was decided by
  `nextWaitStep` on what its iteration observed;
- `LocalInv`: `elapsedWaitSeconds = iteration * interval`, all earlier waits are in
  the log, and `pc` and `result` say what the log says of this iteration;
- `ReportInv`: every marker and message has in the log the end it reports.

The argument: nothing leaves the log (`NextExtends`), so what it once accounted for
it still does (`AccountsPersist`); the decision of a replay is the decision of the
first time (`DecisionAt`), because `LocalInv` makes `elapsedWaitSeconds` a function of
`iteration`. An iteration that ends the loop is the newest and the only one that
does (`EndIsNewest`, `EndsOnce`), so reports of different invocations cannot
contradict each other. The refinement needs `IInv` too: `MappedBefore` turns "all
earlier iterations have been waited for" into the value of `spent`.

`LoopAlwaysLeadsOn` is the safety half of "every resource ends": the log only grows, its
iterations are bounded by the maximum wait (`IterationFits`, `PauseFits`), and between two
entries an invocation only moves forward. `LoopActsAsChild` needs to know when a log shows
a child that waits: `StageBefore` and `StageAfter` say what `Stage` and `Spent` are before and
after the newest iteration has been waited for. Only that one can be ready to wait for or have
observed the target, so a child is never in two stages.

### One execution

`ScheduleRun_proofs`: `RunTypeCorrect`, `RunFailsAfterAll`, `RunSucceedsForAll`,
`RunKeepsOneThread`, `RunLogsFailure`, `RunTimeIsBounded`, `OnlyLateRunsAreCut`,
`RoomForTargets`, `WaitLimitFiresFirst`, `DefaultsHaveRoom`, `RunAlwaysLeadsOn`, and the
refinements `RunImplementsControl` and `ChildrenAreControlled`, for any number of targets, places and crashes. `RInv` says what an
invocation may conclude from where it is: a step has a result only when all steps
before it that this configuration requires are done, and a child has begun only when
all of them are (`OrderInv`); a timestamp that a child used is the recorded one
(`ThreadInv`); what is logged is a failure that no later invocation can escape, as its
cause is in the log (`EndInv`). The last is why an alarm is never false although the
invocation that raised it may die before the error leaves it.

`RunTimeIsBounded` has an invariant of its own, `TimeInv`. While no child has begun, the time
is that of the recorded steps and of the deaths so far. After that, a target that has waited
*n* times is no later than *n* waits and as many turns after the start of its batch, and its
next turn and its message are on top. While a target is queued all places are taken by
targets before it, so one of them is at least a whole batch earlier (`TimeOfPlace`), and time
stops for that one first (`TimeAdvance`). A death adds at most one step and one call
(`TimeCrash`).

What follows for the timeout, with `CutInv` (a run that was cut has reached it). `RunSeconds` is
the bound of `RunTimeBounded`, `step` and `call` the longest of each:

- `OnlyLateRunsAreCut`: a run is cut only when `RunSeconds` of its batches and deaths does not
  fit in the timeout.
- `RoomForTargets`: if `RunSeconds` of *n* batches and `MaxCrashes` deaths fits, a run that was
  cut has more than *n* times as many targets as places.
- `WaitLimitFiresFirst`: with the 7200 s of the construct and any maximum it accepts (at most
  6900 s), if everything that is not a wait takes less than 300 s for one resource, a run that
  was cut has more targets than places. That is five steps, a turn before each wait and one
  after the last, a message, and a step and a call for each death:
  `5 * step + call * (Max div Interval + 2) + MaxCrashes * (step + call) < 300`. This is what
  `settings/consts.ts:16` can claim. With an interval of 6900 s, two turns of 200 s each
  are too long, and the theorem does not apply.
- `DefaultsHaveRoom`: with a wait of 60 s up to 1800 s, ten places, steps of at most 60 s,
  calls of at most 10 s and no more than 7 deaths, a run that was cut has more than 30
  targets. Three batches of 1800 + 32 * 10 s, five steps and seven deaths are 7150 s.

`RunAlwaysLeadsOn` says that no step loses what is recorded or settled
(`StepKeepsProgress`), and that each one moves one child, the invocation or the clock
towards its end, apart from crashes and repeated first messages. The clock has an
end because it stops at the timeout, and a child because what it has waited stays within its
maximum: a child that waits has an interval left (`WaitInv`). The same fact gives
`ChildrenAreControlled`. The place that is watched is a constant, so the theorem is for
each child.

### Discovery

`TargetDiscovery_proofs`: `DiscoveryTypeCorrect`, `SearchesAreOfTheirRegions`,
`NothingIsMissed`, `TargetsAreDistinct`, `MembersGoAndNothingElse`, and the refinement
`DiscoveryImplements`, for any account, deployment, page size and number of restarts. Assumed: finitely many
resources with identifiers, and that the service lists no region twice. `DInv`: each recorded
search is complete for what was tagged all along, without repetition and of its region
(`SearchInv`); the handler's list is the union of the searches it has read
(`DiscoveredInv`); after the loop every database instance in the list has its cluster known
(`DedupInv`), so the filter removes exactly the members. A cluster is never a member, so
the cluster of a member that is dropped is a target. The refinement needs that the regions
are chosen once and accepted (`PlaceInv`), that each search is complete when it is recorded
(`SearchInv`), and that the list, which is rebuilt after each restart, has what the
recorded searches have (`DiscoveredInv`).

### Firings and overlapping executions

`ScheduleWindow_proofs`: `WindowTypeCorrect`, `FiringsDoNotOverlap`, `ExecutionsAreBounded`,
for any crons, ages, retries and timeout, and `DefaultsDoNotOverlap` for the default crons. `WInv` chains the limits: accepted within one
age of the firing, begun within the other age of that, over within the timeout. For the
number of executions, `BInv` counts the pairs of a delivery and an attempt that may still
begin (`Future`): a delivery is in one place at a time (`CopyInv`), so each execution
that begins takes a pair of its own out of them. `DefaultsDoNotOverlap` puts the numbers in:
with 07:50 and 19:05, a gap that a change of clocks shortens by at most an hour, and the
two hours of the construct, every execution is of the latest firing as long as Lambda keeps an
event for less than 375 minutes. Its default is 360, so 15 minutes are to spare; the
construct does not set it.

`OverlappingRuns_proofs`, for any number of runs: `SharedTypeCorrect`, `CommandsAreBounded`,
`LastLookDecides`, `OverlapRefines`, `OverlappingRunsLeadOn`. `SharedInv` has the price of the commands (`Paid`):
each accepted one is paid for by an attempt of its step, and each command step by the
interval that must still fit in the budget. `LookInv`: when the latest look found its
target, the resource is on that side, or a run is under way that has not looked since
its command. When all runs report success there is no such run. `SidesAssumption` is used
here only. `OverlappingRunsLeadOn` is about any number of runs that undo one another: each
step still leads its run on, as the budget and the attempts are the run's own.

### Configuration

`SchedulerConfig_proofs`: `ConfigTypeCorrect`, `DeployedRuns`, `RegionsAsGiven`,
`FoundIsControlled`, `SecretIsGranted`, for all integers as seconds and any tag keys, tag
values, secrets and region lists. `CInv` says that what is deployed is a function of
accepted props, and what a run works with a function of that.

### Only model-checked

Liveness (`EventuallySettles`, `EventuallyReturns`, `EveryFiringEnds`, `AllRunsEnd`) is
outside of the proof system's reach. What is proved of it is the safety half, that no step
leads back: `LoopLeadsOn`, `EveryStepLeadsOn`, `OverlapLeadsOn`. That a bounded measure which
always rises comes to an end needs induction, and that a step is taken at all needs
fairness; both are left to TLC. Every invariant, action property and refinement of
the passing runs is proved. The six disagreements are counterexamples.

### Only proved

`WaitBudgetRespected`, `SearchesMatchRegions`, `CutOnlyWhenLate` and `OnlyTheLatestRuns` are
stated and proved but not listed with a run of their own: `ActsAsChild`,
`DiscoveryIsControlled`, `RunTimeBounded` and `RunsWithinItsFiring`, which are checked, imply
them, the last one where the window fits.

## 5. Not modelled

- The alarms and log filters, the stack, and the resources the construct creates:
  made once at synthesis, without decisions in them beyond those in `SchedulerConfig`.
- Error classes: which one is thrown is the outcome in the models; they have no
  behaviour of their own.
- Formatting of messages, log texts, ARN parsing character by character, AWS
  client configuration and the cache of stateless clients, SDK request retries inside
  one attempt.
- The start by RDS of an instance that has been stopped for seven days, in
  `OverlappingRuns` only.

## 6. Open

1. A composition of several `ResourceProcessing` children under the places of the map.
   `ScheduleRun` reduces a child by hand. Both models of a child implement `ChildControl`,
   which bounds the turns, waits and ends of each; that the loop implements the child of
   `ScheduleRun` (with its time and its failing messages) is neither stated nor proved.
2. Three deliveries and more than two firings in `schedule_window`: the theorem covers
   them, the liveness run does not.
