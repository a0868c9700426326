----------------------------- MODULE ScheduleRun -----------------------------
(***************************************************************************)
(* One durable execution of the schedule Lambda: the steps of `runSchedule` *)
(* up to the list of targets, the Slack thread they are reported in, the   *)
(* context.map that processes at most MAX_CONCURRENT_RESOURCES of them at  *)
(* a time, the failure log of `handler`, and the time limit of the durable *)
(* execution.                                                              *)
(*                                                                         *)
(* The child context of a target is reduced to what its run time depends   *)
(* on: what each check decides (nextWaitStep) and how long it waits.       *)
(* ResourceProcessing models the rest of it.                               *)
(*                                                                         *)
(* Time is in seconds.  Every call takes some of it: a step of the handler *)
(* while nothing else runs, the turns and the messages of the children     *)
(* side by side with those of the others.  Code between calls takes none.  *)
(* When every started child waits, the invocation is suspended, and the    *)
(* next one replays the handler from its first line.                       *)
(***************************************************************************)
EXTENDS RunningScheduleWait, FiniteSets

CONSTANTS
    Mode,               \* the operation of this schedule
    Interval, Max,      \* the wait settings of this deployment
    MaxConcurrency,     \* MAX_CONCURRENT_RESOURCES
    ExecutionTimeout,   \* durable execution timeout, in seconds
    StepSeconds,        \* what a step of the handler may take, with its retries;
                        \* get-resources stands for the steps of all regions
    CallSeconds,        \* what one turn of a child may take, with its retries, or
                        \* one of its messages; a turn is the start or the replay
                        \* of the invocation, a describe and a command if due
    Observed,           \* what a describe step may return
    MaxTargets,         \* bound: targets of one run
    MaxCrashes,         \* bound: invocations that die
    MaxParents,         \* bound: deliveries of the first Slack message
    Watched             \* any one of the places in the list of targets

ASSUME ModeAssumption == Mode \in Modes
ASSUME WaitAssumption == resolveResourceWait(Interval, Max)
ASSUME LimitsAssumption ==
    /\ MaxConcurrency \in Nat \ {0}
    /\ ExecutionTimeout \in Nat \ {0}
    /\ StepSeconds \subseteq Nat /\ CallSeconds \subseteq Nat
    /\ \E longest \in StepSeconds : \A s \in StepSeconds : s <= longest
    /\ \E longest \in CallSeconds : \A s \in CallSeconds : s <= longest
ASSUME BoundsAssumption ==
    MaxTargets \in Nat /\ MaxCrashes \in Nat /\ MaxParents \in Nat \ {0}

VARIABLES
    config,     \* valid: event and environment pass validation; slack: off, on,
                \* or a secret without a channel; notify: a wait that times out
                \* is told to Slack.  Never changes.
    log,        \* results of the steps of the handler
    targets,    \* number of targets the deduplicate step recorded
    parents,    \* first messages delivered to Slack; the n-th has timestamp n
    parentTs,   \* timestamp the post-slack-messages step recorded
    child,      \* state of each child context
    spent,      \* seconds each child has waited
    wake,       \* when the call or the wait of each child ends
    thread,     \* timestamp each child message was posted under
    pc,         \* where the invocation is
    now,        \* seconds since the execution began
    outcome,    \* how the execution ended
    logged,     \* ScheduleExecutionFailed was written
    crashes     \* invocations that died

stepVars  == <<log, targets, parents, parentTs>>
childVars == <<child, spent, wake, thread>>
runVars   == <<config, stepVars, childVars, pc, now, outcome, logged, crashes>>

Indices == 1 .. MaxTargets

ASSUME WatchedAssumption == Watched \in Indices

Steps == { "fetch-slack-secret", "get-target-regions", "get-resources",
           "deduplicate-target-resources", "post-slack-messages" }

Settled == {"ok", "skipped", "failed"}

\* A child that is at a describe, at a command or at one of its two messages.
Calling == {"checking", "posting", "noticing"}

\* The children that hold one of the MaxConcurrency places.
Active == {t \in Indices : child[t] \in Calling \cup {"waiting"}}

TargetIndices == {t \in Indices : t <= targets}

-------------------------------------------------------------------------------
Configs == [valid : BOOLEAN, slack : {"off", "no-channel", "on"}, notify : BOOLEAN]

\* The construct asks for notices only together with Slack.
RunInit ==
    /\ config \in Configs
    /\ config.notify => config.slack # "off"
    /\ log = [s \in Steps |-> "none"]
    /\ targets = 0
    /\ parents = 0
    /\ parentTs = 0
    /\ child = [t \in Indices |-> "queued"]
    /\ spent = [t \in Indices |-> 0]
    /\ wake = [t \in Indices |-> 0]
    /\ thread = [t \in Indices |-> 0]
    /\ pc = "validate"
    /\ now = 0
    /\ outcome = "running"
    /\ logged = FALSE
    /\ crashes = 0

\* The catch of `handler`: write the marker, then rethrow.
FailRun ==
    /\ logged' = TRUE
    /\ pc' = "rethrow"
    /\ UNCHANGED outcome

ReturnFromRun ==
    /\ outcome' = "succeeded"
    /\ pc' = "ended"
    /\ UNCHANGED logged

\* A call of the handler itself has returned.
Takes(seconds) ==
    /\ now + seconds <= ExecutionTimeout
    /\ now' = now + seconds

GoTo(place) ==
    /\ pc' = place
    /\ UNCHANGED <<outcome, logged>>

\* Parameters, wait settings and regions are checked before any step.
Validate ==
    /\ pc = "validate"
    /\ \/ ~ config.valid /\ FailRun
       \/ config.valid /\ GoTo(IF config.slack = "off" THEN "get-target-regions"
                               ELSE "fetch-slack-secret")
    /\ UNCHANGED <<config, stepVars, childVars, now, crashes>>

\* Where the handler goes when a step has returned, n targets being known.
After(step, n) ==
    CASE step = "fetch-slack-secret" -> GoTo("get-target-regions")
      [] step = "get-target-regions" -> GoTo("get-resources")
      [] step = "get-resources"      -> GoTo("deduplicate-target-resources")
      [] step = "deduplicate-target-resources" ->
            IF n = 0 THEN ReturnFromRun
            ELSE GoTo(IF config.slack = "on" THEN "post-slack-messages" ELSE "map")
      [] step = "post-slack-messages" -> GoTo("map")

\* A step whose result is in the log returns it, or rethrows its error.
ReplayStep ==
    /\ pc \in Steps
    /\ log[pc] # "none"
    /\ IF log[pc] = "failed" THEN FailRun ELSE After(pc, targets)
    /\ UNCHANGED <<config, stepVars, childVars, now, crashes>>

\* Mutated form: the error of a step is not recorded, and a replay tries again.
StepFails_unrecorded ==
    /\ pc \in Steps
    /\ log[pc] = "none"
    /\ \E seconds \in StepSeconds : Takes(seconds)
    /\ FailRun
    /\ UNCHANGED <<config, stepVars, childVars, crashes>>

\* A step fails when its retries are exhausted; deduplication fails with it
\* when one of the DB instances it describes cannot be described.
StepFails ==
    /\ pc \in Steps
    /\ log[pc] = "none"
    /\ \E seconds \in StepSeconds : Takes(seconds)
    /\ log' = [log EXCEPT ![pc] = "failed"]
    /\ FailRun
    /\ UNCHANGED <<config, targets, parents, parentTs, childVars, crashes>>

\* Mutated form: the first Slack message is posted outside of a durable step.
StepSucceeds_reposts ==
    /\ pc \in Steps
    /\ log[pc] = "none" \/ (pc = "post-slack-messages" /\ parents < MaxParents)
    /\ \E seconds \in StepSeconds : Takes(seconds)
    /\ log' = [log EXCEPT ![pc] = "done"]
    /\ IF pc = "deduplicate-target-resources"
       THEN targets' \in 0 .. MaxTargets
       ELSE UNCHANGED targets
    /\ IF pc = "post-slack-messages"
       THEN parents' = parents + 1 /\ parentTs' = parents + 1
       ELSE UNCHANGED <<parents, parentTs>>
    /\ After(pc, targets')
    /\ UNCHANGED <<config, childVars, crashes>>

\* A step succeeds.  Deduplication records the targets, the first Slack message
\* its timestamp; the other results matter here only in that they exist.
StepSucceeds ==
    /\ pc \in Steps
    /\ log[pc] = "none"
    /\ \E seconds \in StepSeconds : Takes(seconds)
    /\ log' = [log EXCEPT ![pc] = "done"]
    /\ IF pc = "deduplicate-target-resources"
       THEN targets' \in 0 .. MaxTargets
       ELSE UNCHANGED targets
    /\ IF pc = "post-slack-messages"
       THEN /\ parents' = parents + 1
            /\ parentTs' = parents + 1
       ELSE UNCHANGED <<parents, parentTs>>
    /\ After(pc, targets')
    /\ UNCHANGED <<config, childVars, crashes>>

\* The first Slack message is delivered, but its step is cut before the
\* checkpoint and will run again.  The time of the attempt is in that of its step.
LoseParent ==
    /\ pc = "post-slack-messages"
    /\ log[pc] = "none"
    /\ parents + 1 < MaxParents
    /\ parents' = parents + 1
    /\ UNCHANGED <<config, log, targets, parentTs, childVars, pc,
                   now, outcome, logged, crashes>>

-------------------------------------------------------------------------------
(* context.map and the child contexts. *)

CanStart(t) ==
    /\ t \in TargetIndices
    /\ child[t] = "queued"
    /\ \A u \in TargetIndices : u < t => child[u] # "queued"
    /\ Cardinality(Active) < MaxConcurrency

\* A child goes over to a state whose call or wait ends at a moment; 0 if it has none.
Becomes(t, state, moment) ==
    /\ child' = [child EXCEPT ![t] = state]
    /\ wake' = [wake EXCEPT ![t] = moment]

\* A call or a wait of the child has come to its end.
Over(t, state) ==
    /\ pc = "map"
    /\ child[t] = state
    /\ now >= wake[t]

StartChild(t) ==
    /\ pc = "map"
    /\ CanStart(t)
    /\ \E seconds \in CallSeconds : Becomes(t, "checking", now + seconds)
    /\ UNCHANGED <<config, stepVars, spent, thread, pc, now, outcome, logged, crashes>>

\* Slack hears of a timeout when it is on and the option asks for it.
Notified(error) == error = "timeout" /\ config.slack = "on" /\ config.notify

\* One turn of the loop of `processing`, and how the child context takes it.
Check(t) ==
    /\ Over(t, "checking")
    /\ \E current \in Observed, seconds \in CallSeconds :
          LET step == nextWaitStep(Mode, current, spent[t], Interval, Max) IN
          \/ /\ step.kind = "finish"
             /\ IF step.value = "skipped" THEN Becomes(t, "skipped", 0)
                ELSE IF config.slack = "on" THEN Becomes(t, "posting", now + seconds)
                ELSE Becomes(t, "ok", 0)
          \/ /\ step.kind = "throw"
             /\ IF Notified(step.value) THEN Becomes(t, "noticing", now + seconds)
                ELSE Becomes(t, "failed", 0)
          \/ /\ step.kind = "pause"
             /\ Becomes(t, "waiting", now + Interval)
    /\ UNCHANGED <<config, stepVars, spent, thread, pc, now, outcome, logged, crashes>>

\* A describe, start or stop step of the child fails, its retries being exhausted.
CheckFails(t) ==
    /\ Over(t, "checking")
    /\ Becomes(t, "failed", 0)
    /\ UNCHANGED <<config, stepVars, spent, thread, pc, now, outcome, logged, crashes>>

\* Mutated forms: the budget is counted down from zero, or not at all.
Resume_down(t) ==
    /\ Over(t, "waiting")
    /\ \E seconds \in CallSeconds : Becomes(t, "checking", now + seconds)
    /\ spent' = [spent EXCEPT ![t] = spent[t] - Interval]
    /\ UNCHANGED <<config, stepVars, thread, pc, now, outcome, logged, crashes>>

Resume_uncounted(t) ==
    /\ Over(t, "waiting")
    /\ \E seconds \in CallSeconds : Becomes(t, "checking", now + seconds)
    /\ UNCHANGED <<config, stepVars, spent, thread, pc, now, outcome, logged, crashes>>

Resume(t) ==
    /\ Over(t, "waiting")
    /\ \E seconds \in CallSeconds : Becomes(t, "checking", now + seconds)
    /\ spent' = [spent EXCEPT ![t] = spent[t] + Interval]
    /\ UNCHANGED <<config, stepVars, thread, pc, now, outcome, logged, crashes>>

\* A message of a child goes to the thread of the timestamp the handler holds.  A
\* step that fails may have delivered it all the same.
Delivers(t) == thread' = [thread EXCEPT ![t] = parentTs]

\* The message of a success: when its step fails, so does the child.
PostChild(t) ==
    /\ Over(t, "posting")
    /\ \/ Becomes(t, "ok", 0) /\ Delivers(t)
       \/ Becomes(t, "failed", 0) /\ (Delivers(t) \/ UNCHANGED thread)
    /\ UNCHANGED <<config, stepVars, spent, pc, now, outcome, logged, crashes>>

\* Mutated form: the notice is posted outside of the thread, as a message of its own.
PostNotice_apart(t) ==
    /\ Over(t, "noticing")
    /\ Becomes(t, "failed", 0)
    /\ thread' = [thread EXCEPT ![t] = parents + 1]
    /\ UNCHANGED <<config, stepVars, spent, pc, now, outcome, logged, crashes>>

\* The notice of a timeout: the error of the wait or of the notice ends the child.
PostNotice(t) ==
    /\ Over(t, "noticing")
    /\ Becomes(t, "failed", 0)
    /\ Delivers(t) \/ UNCHANGED thread
    /\ UNCHANGED <<config, stepVars, spent, pc, now, outcome, logged, crashes>>

\* Mutated form: the first failed child ends the run.
Finalize_failFast ==
    /\ pc = "map"
    /\ \/ (\E t \in TargetIndices : child[t] = "failed") /\ FailRun
       \/ (\A t \in TargetIndices : child[t] \in Settled \ {"failed"}) /\ ReturnFromRun
    /\ UNCHANGED <<config, stepVars, childVars, now, crashes>>

\* Mutated form: nothing rethrows what the map recorded.
Finalize_swallows ==
    /\ pc = "map"
    /\ \A t \in TargetIndices : child[t] \in Settled
    /\ ReturnFromRun
    /\ UNCHANGED <<config, stepVars, childVars, now, crashes>>

\* results.throwIfError, once the map has settled every target.
Finalize ==
    /\ pc = "map"
    /\ \A t \in TargetIndices : child[t] \in Settled
    /\ IF \E t \in TargetIndices : child[t] = "failed" THEN FailRun ELSE ReturnFromRun
    /\ UNCHANGED <<config, stepVars, childVars, now, crashes>>

\* The error leaves the handler.  The invocation may still die before it does;
\* then the handler runs again and meets the same failure.
Rethrow ==
    /\ pc = "rethrow"
    /\ outcome' = "failed"
    /\ pc' = "ended"
    /\ UNCHANGED <<config, stepVars, childVars, now, logged, crashes>>

-------------------------------------------------------------------------------
(* Time, suspension, crashes and the limit of the execution. *)

\* Nothing to do before the next call or wait is over.
Idle ==
    /\ pc = "map"
    /\ Active # {}
    /\ \A t \in Active : wake[t] > now
    /\ \A t \in TargetIndices : ~ CanStart(t)

\* Time goes to the first of these moments.  With no call under way the invocation
\* is suspended, and the next one replays.
Advance ==
    /\ Idle
    /\ now < ExecutionTimeout
    /\ \E moment \in {wake[t] : t \in Active} \cup {ExecutionTimeout} :
          /\ \A t \in Active : moment <= wake[t]
          /\ moment <= ExecutionTimeout
          /\ now' = moment
    /\ pc' = IF \A t \in Active : child[t] = "waiting" THEN "validate" ELSE "map"
    /\ UNCHANGED <<config, stepVars, childVars, outcome, logged, crashes>>

\* The handler is at a step that it still has to take.
AtStep == pc \in Steps /\ log[pc] = "none"

\* The service stops the execution; no code of the handler runs any more.  A call
\* of a child is cut after Advance, a step of the handler before it returns.
TimeOut ==
    /\ outcome = "running"
    /\ \/ now >= ExecutionTimeout
       \/ AtStep /\ \E seconds \in StepSeconds : now + seconds > ExecutionTimeout
    /\ now' = ExecutionTimeout
    /\ outcome' = "timed-out"
    /\ pc' = "ended"
    /\ UNCHANGED <<config, stepVars, childVars, logged, crashes>>

\* The invocation dies; another one replays.  What the cut step of the handler has
\* taken is lost, and each call that was under way is made again.  Waits go on.
CrashRun ==
    /\ outcome = "running"
    /\ crashes < MaxCrashes
    /\ crashes' = crashes + 1
    /\ \/ ~ AtStep /\ UNCHANGED now
       \/ AtStep /\ \E seconds \in StepSeconds : \E lost \in 0 .. seconds : Takes(lost)
    /\ \E again \in [Indices -> CallSeconds] :
          wake' = [t \in Indices |->
                      IF child[t] \in Calling THEN now + again[t] ELSE wake[t]]
    /\ pc' = "validate"
    /\ UNCHANGED <<config, stepVars, child, spent, thread, outcome, logged>>

Ended == pc = "ended" /\ UNCHANGED runVars

HandlerStep ==
    Validate \/ ReplayStep \/ StepFails \/ StepSucceeds \/ Finalize \/ Rethrow

ChildTurn(t) ==
    \/ StartChild(t) \/ Check(t) \/ CheckFails(t) \/ Resume(t)
    \/ PostChild(t) \/ PostNotice(t)

ChildStep == \E t \in Indices : ChildTurn(t)

RunNext ==
    HandlerStep \/ ChildStep \/ LoseParent \/ Advance \/ TimeOut \/ CrashRun \/ Ended

RunSpec == RunInit /\ [][RunNext]_runVars

\* The service keeps invoking the execution, and time passes.
FairRunSpec == RunSpec /\ WF_runVars(HandlerStep \/ ChildStep \/ Advance \/ TimeOut)

-------------------------------------------------------------------------------
(* Properties. *)

\* Type invariant.
RunTypeOK ==
    /\ config \in Configs
    /\ log \in [Steps -> {"none", "done", "failed"}]
    /\ targets \in 0 .. MaxTargets
    /\ parents \in 0 .. MaxParents
    /\ parentTs \in 0 .. MaxParents
    /\ child \in [Indices -> {"queued", "waiting"} \cup Calling \cup Settled]
    /\ spent \in [Indices -> Nat]
    /\ wake \in [Indices -> Nat]
    /\ thread \in [Indices -> 0 .. MaxParents]
    /\ pc \in {"validate", "map", "rethrow", "ended"} \cup Steps
    /\ now \in Nat
    /\ outcome \in {"running", "succeeded", "failed", "timed-out"}
    /\ logged \in BOOLEAN
    /\ crashes \in 0 .. MaxCrashes

\* Doc comment of runSchedule: "A failed resource does not stop the others."
\* A run that failed after its targets were known, other than at the first
\* Slack message, has settled every target, and the failed ones explain it.
FailsAfterAll ==
    outcome = "failed" /\ config.valid /\ (\A s \in Steps : log[s] # "failed") =>
        /\ \A t \in TargetIndices : child[t] \in Settled
        /\ \E t \in TargetIndices : child[t] = "failed"

\* A run that succeeded left no target out, and with Slack on announced each of
\* them in the thread of the recorded first message.
SuccessMeansAll ==
    outcome = "succeeded" =>
        \A t \in TargetIndices :
            /\ child[t] \in {"ok", "skipped"}
            /\ config.slack = "on" /\ child[t] = "ok" => thread[t] = parentTs

\* All child messages of a run, of successes and of timeouts, are in one thread,
\* that of a message delivered, even when the first one was delivered more than once.
OneThread ==
    \A t \in Indices : thread[t] # 0 => thread[t] = parentTs /\ parentTs <= parents

\* A run that failed has logged ScheduleExecutionFailed.  A run that succeeded
\* never logged it in any of its invocations, so no alarm is false.
FailureLogged ==
    /\ outcome = "failed" => logged
    /\ outcome = "succeeded" => ~logged

\* How long a run takes.  The targets go in batches of MaxConcurrency.  Each has at
\* most its maximum wait, a turn before each wait and after the last one, and one
\* message.  Before them come five steps at most, and what an invocation that dies
\* was at is done again.
Batches == (targets + MaxConcurrency - 1) \div MaxConcurrency

BatchSeconds(call) == Max + call * (Max \div Interval + 2)

OtherSeconds(step, call, deaths) == 5 * step + deaths * (step + call)

RunSeconds(step, call, batches, deaths) ==
    OtherSeconds(step, call, deaths) + batches * BatchSeconds(call)

RunTimeBounded ==
    \A step \in StepSeconds, call \in CallSeconds :
        /\ \A s \in StepSeconds : s <= step
        /\ \A s \in CallSeconds : s <= call
        => now <= RunSeconds(step, call, Batches, crashes)

\* What a run has settled or recorded stays so in every later invocation.
ProgressIsKept ==
    /\ \A t \in Indices : child[t] \in Settled => child'[t] = child[t]
    /\ \A t \in Indices : spent[t] <= spent'[t]
    /\ \A s \in Steps : log[s] # "none" => log'[s] = log[s]
    /\ log["deduplicate-target-resources"] # "none" => targets' = targets
    /\ parentTs # 0 => parentTs' = parentTs
    /\ outcome # "running" => outcome' = outcome

\* How far a child is between two waits, and how far an invocation is.
Stage(state) ==
    CASE state = "queued"   -> 0
      [] state = "checking" -> 1
      [] state = "waiting"  -> 2
      [] state \in {"posting", "noticing"} -> 3
      [] state \in Settled  -> 4

Place(where) ==
    CASE where = "validate"                     -> 0
      [] where = "fetch-slack-secret"           -> 1
      [] where = "get-target-regions"           -> 2
      [] where = "get-resources"                -> 3
      [] where = "deduplicate-target-resources" -> 4
      [] where = "post-slack-messages"          -> 5
      [] where = "map"                          -> 6
      [] where = "rethrow"                      -> 7
      [] where = "ended"                        -> 8

\* A child moves on, or has waited for one interval more that its maximum allows.
MovesOn(t) ==
    \/ spent'[t] > spent[t] /\ spent'[t] <= Max
    \/ spent'[t] = spent[t] /\ Stage(child'[t]) > Stage(child[t])

\* Apart from a crash and from a message that is posted again, a step takes one
\* child further and leaves the others, or leaves the children, and lets time pass
\* within the limit or takes the invocation further.  None of these can go on for ever.
LeadsOn ==
    \/ crashes' > crashes \/ parents' > parents
    \/ /\ UNCHANGED <<now, pc>>
       /\ \E t \in Indices :
             /\ MovesOn(t)
             /\ \A u \in Indices \ {t} : child'[u] = child[u] /\ spent'[u] = spent[u]
    \/ /\ UNCHANGED <<child, spent>>
       /\ now <= now' /\ now' <= ExecutionTimeout
       /\ now' > now \/ Place(pc') > Place(pc)

\* A run neither loses what it has nor goes round in circles, whatever its children
\* observe and however often its invocations die.
EveryStepLeadsOn == [][ProgressIsKept /\ LeadsOn]_runVars

\* The numbers of batches and of dead invocations that the execution timeout has
\* room for, whatever the calls take.
Roomy ==
    {run \in (0 .. MaxTargets) \X (0 .. MaxCrashes) :
        \A step \in StepSeconds, call \in CallSeconds :
            RunSeconds(step, call, run[1], run[2]) < ExecutionTimeout}

RunFits == <<Batches, crashes>> \in Roomy

\* The execution timeout only cuts a run that it has no room for, whatever the
\* children observe and how often the invocations die.
CutOnlyWhenLate == outcome = "timed-out" => ~ RunFits

\* A run that fits in the execution timeout returns or throws by itself, under
\* FairRunSpec: it neither hangs nor is cut at the timeout.
EventuallyReturns == <>(outcome \in {"succeeded", "failed"} \/ ~ RunFits)

\* settings/consts.ts, of the maximum wait: "Stays under the 2-hour durable
\* execution timeout so this limit fires first."  So when the execution times
\* out, no resource is still within its own limit.
LimitFiresFirst ==
    outcome = "timed-out" => \A t \in TargetIndices : child[t] \in Settled

\* The construct, of the log filter: "ScheduleExecutionFailed is logged for
\* every failed execution", the timed-out ones included.
EveryFailedExecutionLogged == outcome \in {"failed", "timed-out"} => logged

-------------------------------------------------------------------------------
(* Refinement: what is recorded of the targets tells what the run did. *)

Known == log["deduplicate-target-resources"] = "done"

Fate(t) ==
    CASE child[t] = "queued"                  -> "untouched"
      [] child[t] \in Calling \cup {"waiting"} -> "begun"
      [] OTHER                                -> child[t]

Run == INSTANCE RunControl
    WITH plan    <- IF Known THEN targets ELSE -1,
         fate    <- [t \in Indices |-> Fate(t)],
         alarmed <- logged

\* Through suspensions, crashes and replays, a run keeps the promise of
\* RunControl: it fails before it touches any resource or after it settled all.
KeepsPromise == Run!ControlSpec

\* A child that waits for a place has not begun to check.  The notice of a timeout
\* is still part of the check that throws.
Child == INSTANCE ChildControl
    WITH limits <- [interval |-> Interval, max |-> Max, slack |-> config.slack = "on"],
         stage  <- IF child[Watched] \in {"queued", "noticing"} THEN "checking"
                   ELSE child[Watched],
         spent  <- spent[Watched]

\* Whatever the other children do, and however often the run is suspended or dies,
\* each child has the turns, the waits and the end of a child context.
ChildIsControlled == Child!ChildSpec
===============================================================================
