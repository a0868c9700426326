-------------------------- MODULE ResourceProcessing --------------------------
(***************************************************************************)
(* The durable child context "resource-<n>" of one RDS resource: the       *)
(* describe / command / wait loop of `processing`, the failure report of   *)
(* `reportResourceFailure`, and the Slack message that ends it.            *)
(*                                                                         *)
(* The code runs inside a durable execution.  A Lambda invocation may die  *)
(* at any point, and a context.wait may end it on purpose; the next        *)
(* invocation runs the same function from its first line.  Local variables *)
(* start over, and each context.step or context.wait whose result is in    *)
(* the checkpoint log returns that result at once.  A step that was cut    *)
(* before its checkpoint runs again.  So the state is split in three:      *)
(*   - what the log keeps     : described, commanded, waits, posted,       *)
(*                              settled;                                   *)
(*   - what an invocation has : pc, iteration, elapsedWaitSeconds, result; *)
(*   - the world              : status of the resource in RDS, and what    *)
(*                              was sent and logged (calls, markers,       *)
(*                              messages), which nothing takes back.       *)
(***************************************************************************)
EXTENDS RunningScheduleWait, FiniteSets

CONSTANTS
    Statuses,       \* statuses RDS may report, "gone" for a deleted resource
    Drift,          \* pairs <<from, to>>: changes nobody here asked for
    WaitSettings,   \* pairs <<intervalSeconds, maxSeconds>> of the deployments
    MaxCrashes      \* bound: invocations that die between two checkpoints

StepFailed == "step-failed"   \* a context.step whose retries are exhausted
Absent     == "none"          \* no result yet

ASSUME StatusesAssumption ==
    /\ {"available", "stopped", "starting", "stopping", "gone"} \subseteq Statuses
    /\ {StepFailed, Absent, "not-found"} \cap Statuses = {}

ASSUME DriftAssumption == Drift \subseteq Statuses \X Statuses

ASSUME WaitSettingsAssumption ==
    \A w \in WaitSettings : w = <<w[1], w[2]>> /\ resolveResourceWait(w[1], w[2])

ASSUME MaxCrashesAssumption == MaxCrashes \in Nat

VARIABLES
    params,             \* mode, resource type, Slack and wait settings: never change
    status,             \* status of the resource in RDS
    described,          \* log: result of the step describe-<type>-<id>-<i>, by i
    commanded,          \* log: result of the step <mode>-<type>-<id>-<i>, by i
    waits,              \* log: the i whose wait-<type>-<id>-<i> has elapsed
    posted,             \* log: result of the Slack step, by step name
    settled,            \* log: how the child context ended
    pc,                 \* where the invocation is
    iteration,
    elapsedWaitSeconds,
    result,             \* status or error in hand, Absent while the loop runs
    calls,              \* start and stop calls RDS received
    markers,            \* log markers written
    messages,           \* Slack messages delivered
    crashes             \* invocations that died so far

logVars   == <<described, commanded, waits, posted, settled>>
localVars == <<pc, iteration, elapsedWaitSeconds, result>>
worldVars == <<status, calls, markers, messages>>
vars      == <<params, logVars, localVars, worldVars, crashes>>

-------------------------------------------------------------------------------
(* The checkpoint log. *)

\* Steps are named after the iteration, so every attempt has an entry of its own.
StepKey(i) == i

Checkpoint(log, key, value) ==
    [k \in DOMAIN log \cup {key} |-> IF k = key THEN value ELSE log[k]]

Observations == (Statuses \ {"gone"}) \cup {"not-found", StepFailed}

Results == {"available", "stopped", "skipped", "unexpected", "timeout", "step"}

SlackSteps == {"post-slack-child-messages", "post-slack-timeout-message"}

\* What a describe step may return: the status, not-found for a cluster that is
\* gone, and an error when every attempt failed (always so for a missing db).
ObservationsOf(type, current) ==
    {StepFailed} \cup
        IF current # "gone" THEN {current}
        ELSE IF type = "cluster" THEN {"not-found"} ELSE {}

-------------------------------------------------------------------------------
(* Where the code goes after an observation, a failure or a finish: these *)
(* run without an await in between, inside the action that leads to them. *)

SlackStepFor(outcome) ==
    IF outcome = "timeout" THEN "post-slack-timeout-message"
    ELSE "post-slack-child-messages"

\* A timeout is posted only when asked for; a skipped resource never is.
PostsMessage(outcome) ==
    /\ params.slack
    /\ \/ outcome \in {"available", "stopped"}
       \/ outcome = "timeout" /\ params.notify

MarkersFor(outcome) ==
    CASE outcome = "unexpected" -> {"ResourceStatusUnexpected"}
      [] outcome = "timeout"    -> {"ResourceWaitTimedOut"}
      [] OTHER                  -> {}

\* Mutated form: the marker is left to the Slack message, when there is one.
LeaveLoop_quiet(outcome) ==
    /\ result' = outcome
    /\ markers' = IF PostsMessage(outcome) THEN markers
                  ELSE markers \cup MarkersFor(outcome)
    /\ pc' = IF PostsMessage(outcome) THEN "post" ELSE "return"

\* The loop is over: log the marker of a failure, then post or return.
LeaveLoop(outcome) ==
    /\ result' = outcome
    /\ markers' = markers \cup MarkersFor(outcome)
    /\ pc' = IF PostsMessage(outcome) THEN "post" ELSE "return"

\* nextWaitStep on the result of a describe step.
Proceed(observation) ==
    LET step == nextWaitStep(params.mode, observation, elapsedWaitSeconds,
                             params.interval, params.max)
    IN  \/ /\ observation = StepFailed
           /\ LeaveLoop("step")
        \/ /\ observation # StepFailed
           /\ step.kind \in {"finish", "throw"}
           /\ LeaveLoop(step.value)
        \/ /\ observation # StepFailed
           /\ step.kind = "pause"
           /\ pc' = IF step.value = "none" THEN "wait" ELSE "command"
           /\ UNCHANGED <<result, markers>>

\* Mutated form: a command that succeeded counts as the target reached.
AfterCommand_trusting(outcome) ==
    LeaveLoop(IF outcome = StepFailed THEN "step" ELSE TargetOf(params.mode))

\* A command step: its result is success, or the error that ends the loop.
AfterCommand(outcome) ==
    IF outcome = StepFailed
    THEN LeaveLoop("step")
    ELSE pc' = "wait" /\ UNCHANGED <<result, markers>>

\* The first line of the loop: what each invocation starts with.
StartOver ==
    /\ pc' = "describe"
    /\ iteration' = 0
    /\ elapsedWaitSeconds' = 0
    /\ result' = Absent

NextIteration ==
    /\ pc' = "describe"
    /\ iteration' = iteration + 1
    /\ elapsedWaitSeconds' = elapsedWaitSeconds + params.interval
    /\ UNCHANGED result

-------------------------------------------------------------------------------
Configurations ==
    { [mode |-> m, type |-> t, slack |-> s, notify |-> n,
       interval |-> w[1], max |-> w[2]] :
        m \in Modes, t \in {"db", "cluster"}, s \in BOOLEAN, n \in BOOLEAN,
        w \in WaitSettings }

EmptyLog == [k \in {} |-> Absent]

\* The construct asks for notices only together with Slack.
Init ==
    /\ params \in Configurations
    /\ params.notify => params.slack
    /\ status \in Statuses
    /\ described = EmptyLog
    /\ commanded = EmptyLog
    /\ waits = {}
    /\ posted = EmptyLog
    /\ settled = Absent
    /\ pc = "describe"
    /\ iteration = 0
    /\ elapsedWaitSeconds = 0
    /\ result = Absent
    /\ calls = {}
    /\ markers = {}
    /\ messages = {}
    /\ crashes = 0

\* The describe step returns from the log.
ReplayDescribe ==
    /\ pc = "describe"
    /\ StepKey(iteration) \in DOMAIN described
    /\ Proceed(described[StepKey(iteration)])
    /\ UNCHANGED <<params, logVars, iteration, elapsedWaitSeconds,
                   status, calls, messages, crashes>>

\* Mutated form: describe is no durable step, and asks RDS in every replay.
Describe_undurable ==
    /\ pc = "describe"
    /\ \E observation \in ObservationsOf(params.type, status) :
          /\ described' = Checkpoint(described, StepKey(iteration), observation)
          /\ Proceed(observation)
    /\ UNCHANGED <<params, commanded, waits, posted, settled, iteration,
                   elapsedWaitSeconds, status, calls, messages, crashes>>

\* The describe step asks RDS, and its result is checkpointed.
Describe ==
    /\ pc = "describe"
    /\ StepKey(iteration) \notin DOMAIN described
    /\ \E observation \in ObservationsOf(params.type, status) :
          /\ described' = Checkpoint(described, StepKey(iteration), observation)
          /\ Proceed(observation)
    /\ UNCHANGED <<params, commanded, waits, posted, settled, iteration,
                   elapsedWaitSeconds, status, calls, messages, crashes>>

\* The start or stop step returns from the log, or rethrows the error it kept.
ReplayCommand ==
    /\ pc = "command"
    /\ StepKey(iteration) \in DOMAIN commanded
    /\ AfterCommand(commanded[StepKey(iteration)])
    /\ UNCHANGED <<params, logVars, iteration, elapsedWaitSeconds,
                   status, calls, messages, crashes>>

\* RDS takes a start of a stopped resource and a stop of an available one, and
\* rejects the call in every other status.
Accepts(current) == current = SourceOf(params.mode)

Call == [command   |-> params.mode,
         iteration |-> iteration,
         status    |-> status]

\* Mutated form: the command is no durable step, and is sent in every replay.
CallRDS_undurable ==
    /\ pc = "command"
    /\ calls' = calls \cup {Call}
    /\ status' = IF Accepts(status)
                 THEN (IF params.mode = "start" THEN "starting" ELSE "stopping")
                 ELSE status

CallRDS ==
    /\ pc = "command"
    /\ StepKey(iteration) \notin DOMAIN commanded
    /\ calls' = calls \cup {Call}
    /\ status' = IF Accepts(status)
                 THEN (IF params.mode = "start" THEN "starting" ELSE "stopping")
                 ELSE status

\* One attempt whose result never reaches the log: the reply is lost, RDS
\* rejected the call, or the invocation is about to die.  The step runs again.
AttemptCommand ==
    /\ CallRDS
    /\ UNCHANGED <<params, logVars, localVars, markers, messages, crashes>>

\* The attempt that ends the step: an accepted call that was acknowledged, or
\* the last failure the SDK retries allow.
FinishCommand ==
    /\ CallRDS
    /\ \E outcome \in {"done", StepFailed} :
          /\ outcome = "done" => Accepts(status)
          /\ commanded' = Checkpoint(commanded, StepKey(iteration), outcome)
          /\ AfterCommand(outcome)
    /\ UNCHANGED <<params, described, waits, posted, settled, iteration,
                   elapsedWaitSeconds, messages, crashes>>

\* The wait elapsed in an earlier invocation.
ReplayWait ==
    /\ pc = "wait"
    /\ StepKey(iteration) \in waits
    /\ NextIteration
    /\ UNCHANGED <<params, logVars, worldVars, crashes>>

\* Mutated form: the wait is an ordinary sleep, which no log records.
WaitElapses_unrecorded ==
    /\ pc = "wait"
    /\ StepKey(iteration) \notin waits
    /\ NextIteration \/ StartOver
    /\ UNCHANGED <<params, logVars, worldVars, crashes>>

\* The wait elapses.  The invocation is still there when other resources kept
\* it running; otherwise it was suspended and a new one starts over.
WaitElapses ==
    /\ pc = "wait"
    /\ StepKey(iteration) \notin waits
    /\ waits' = waits \cup {StepKey(iteration)}
    /\ NextIteration \/ StartOver
    /\ UNCHANGED <<params, described, commanded, posted, settled, worldVars, crashes>>

\* The error of a failed Slack step replaces the result, good or bad.
AfterPost(outcome) ==
    /\ result' = IF outcome = StepFailed THEN "step" ELSE result
    /\ pc' = "return"

ReplayPost ==
    /\ pc = "post"
    /\ SlackStepFor(result) \in DOMAIN posted
    /\ AfterPost(posted[SlackStepFor(result)])
    /\ UNCHANGED <<params, logVars, iteration, elapsedWaitSeconds, worldVars, crashes>>

Deliver == messages' = messages \cup {result}

\* Slack delivers the message but the step is not checkpointed, and runs again.
AttemptPost ==
    /\ pc = "post"
    /\ SlackStepFor(result) \notin DOMAIN posted
    /\ Deliver
    /\ UNCHANGED <<params, logVars, localVars, status, calls, markers, crashes>>

\* The Slack step ends: the message is out, or every attempt failed.
FinishPost ==
    /\ pc = "post"
    /\ SlackStepFor(result) \notin DOMAIN posted
    /\ \E outcome \in {"done", StepFailed} :
          /\ posted' = Checkpoint(posted, SlackStepFor(result), outcome)
          /\ AfterPost(outcome)
          /\ IF outcome = "done" THEN Deliver ELSE UNCHANGED messages
    /\ UNCHANGED <<params, described, commanded, waits, settled, iteration,
                   elapsedWaitSeconds, status, calls, markers, crashes>>

\* The child context returns or throws, and that is checkpointed.
Settle ==
    /\ pc = "return"
    /\ settled' = result
    /\ pc' = "settled"
    /\ UNCHANGED <<params, described, commanded, waits, posted, iteration,
                   elapsedWaitSeconds, result, worldVars, crashes>>

\* The invocation dies between two checkpoints; another one starts over.
Crash ==
    /\ pc # "settled"
    /\ crashes < MaxCrashes
    /\ crashes' = crashes + 1
    /\ StartOver
    /\ UNCHANGED <<params, logVars, worldVars>>

\* RDS finishes a transition, maintenance begins, somebody else acts.
StatusDrifts ==
    /\ \E change \in Drift : change[1] = status /\ status' = change[2]
    /\ UNCHANGED <<params, logVars, localVars, calls, markers, messages, crashes>>

\* A settled child context does nothing more.
Done == pc = "settled" /\ UNCHANGED vars

Progress ==
    \/ ReplayDescribe \/ Describe
    \/ ReplayCommand \/ FinishCommand
    \/ ReplayWait \/ WaitElapses
    \/ ReplayPost \/ FinishPost
    \/ Settle

Next ==
    \/ Progress
    \/ AttemptCommand
    \/ AttemptPost
    \/ Crash
    \/ StatusDrifts
    \/ Done

Spec == Init /\ [][Next]_vars

\* The invocation keeps running, timers fire, the service invokes again after a
\* suspension or a crash, and SDK retries are finite: no step is tried forever.
FairSpec == Spec /\ WF_vars(Progress)

-------------------------------------------------------------------------------
(* Properties. *)

\* The decision the loop takes on what iteration i observed.  The replayed
\* counter is not used: i intervals have elapsed when iteration i begins.
DecisionAt(i) ==
    nextWaitStep(params.mode, described[i], i * params.interval,
                 params.interval, params.max)

PausesAt(i) ==
    /\ i \in DOMAIN described
    /\ described[i] # StepFailed
    /\ DecisionAt(i).kind = "pause"

\* Iteration i has done all that comes before its wait.
ReadyToWait(i) ==
    /\ PausesAt(i)
    /\ DecisionAt(i).value # "none" =>
          i \in DOMAIN commanded /\ commanded[i] = "done"

\* Type invariant: the shape of every variable, logs keyed by iterations.
TypeOK ==
    /\ params \in Configurations
    /\ status \in Statuses
    /\ DOMAIN described \subseteq Nat
    /\ \A i \in DOMAIN described : described[i] \in Observations
    /\ DOMAIN commanded \subseteq Nat
    /\ \A i \in DOMAIN commanded : commanded[i] \in {"done", StepFailed}
    /\ waits \subseteq Nat
    /\ DOMAIN posted \subseteq SlackSteps
    /\ \A s \in DOMAIN posted : posted[s] \in {"done", StepFailed}
    /\ settled \in Results \cup {Absent}
    /\ pc \in {"describe", "command", "wait", "post", "return", "settled"}
    /\ iteration \in Nat
    /\ elapsedWaitSeconds \in Nat
    /\ result \in Results \cup {Absent}
    /\ calls \subseteq [command : Modes, iteration : Nat, status : Statuses]
    /\ markers \subseteq {"ResourceStatusUnexpected", "ResourceWaitTimedOut"}
    /\ messages \subseteq Results
    /\ crashes \in Nat

\* However often the loop was replayed, the intervals that elapsed for this
\* resource stay within its maximum (hasWaitBudget, elapsedWaitSeconds).
WaitBudgetRespected ==
    \A i \in waits : (i + 1) * params.interval <= params.max

\* A resource is given up on only when all its intervals but a part of one were
\* really waited for, and it was still moving or in the opposite state then.
GivesUpOnlyWhenSpent ==
    settled = "timeout" =>
        \E n \in DOMAIN described :
            /\ waits = 0 .. (n - 1)
            /\ (n + 1) * params.interval > params.max
            /\ described[n] \in {SourceOf(params.mode)} \cup TRANSITIONING_STATES

\* RDS receives a start only for a resource whose describe step returned
\* "stopped", a stop only for one that returned "available", in an iteration
\* whose earlier intervals all elapsed and which has an interval left to wait.
CommandJustified ==
    \A c \in calls :
        /\ c.command = params.mode
        /\ c.iteration \in DOMAIN described
        /\ described[c.iteration] = SourceOf(params.mode)
        /\ \A j \in 0 .. (c.iteration - 1) : j \in waits
        /\ (c.iteration + 1) * params.interval <= params.max

\* A result of "available" or "stopped" is the target of the mode, is what the
\* last describe step returned, and that step ran after every start or stop
\* call, each of which had succeeded and been waited for.
SuccessIsObserved ==
    settled \in {"available", "stopped"} =>
        /\ settled = TargetOf(params.mode)
        /\ \E n \in DOMAIN described :
              /\ described[n] = settled
              /\ \A i \in DOMAIN described : i <= n
              /\ \A c \in calls :
                    /\ c.iteration < n
                    /\ c.iteration \in waits
                    /\ c.iteration \in DOMAIN commanded
                    /\ commanded[c.iteration] = "done"

\* What was logged and posted over all invocations agrees with how the resource
\* ended: markers name the failure the alarms watch, no message contradicts it,
\* and a message that was due was delivered.
ReportsAgree ==
    /\ settled \in {"available", "stopped", "skipped"} => markers = {}
    /\ settled \in {"unexpected", "timeout"} => markers = MarkersFor(settled)
    /\ settled \notin {Absent, "step"} =>
          messages = IF PostsMessage(settled) THEN {settled} ELSE {}
    /\ "timeout" \in messages => "ResourceWaitTimedOut" \in markers
    /\ messages \cap {"available", "stopped"} # {} => markers = {}

\* What the checkpoint log holds is never replaced, so every invocation takes
\* the decisions of the earlier ones again; how the resource ended is final.
LogIsKept ==
    /\ \A i \in DOMAIN described :
          i \in DOMAIN described' /\ described'[i] = described[i]
    /\ \A i \in DOMAIN commanded :
          i \in DOMAIN commanded' /\ commanded'[i] = commanded[i]
    /\ waits \subseteq waits'
    /\ \A s \in DOMAIN posted : s \in DOMAIN posted' /\ posted'[s] = posted[s]
    /\ settled # Absent => settled' = settled

\* A call reaches RDS only in the newest iteration of the log, before its
\* command step is recorded: replay never repeats a command that succeeded.
CallsFollowLog ==
    [][ \A c \in calls' \ calls :
           /\ DOMAIN described = 0 .. c.iteration
           /\ waits = 0 .. (c.iteration - 1)
           /\ c.iteration \notin DOMAIN commanded ]_vars

\* How far an invocation is in one iteration.
Place(where) ==
    CASE where = "describe" -> 0
      [] where = "command"  -> 1
      [] where = "wait"     -> 2
      [] where = "post"     -> 3
      [] where = "return"   -> 4
      [] where = "settled"  -> 5

\* The log has an entry more, of an iteration within the maximum wait.
LogGrows ==
    \/ \E i \in DOMAIN described' \ DOMAIN described : i * params.interval <= params.max
    \/ \E i \in DOMAIN commanded' \ DOMAIN commanded : (i + 1) * params.interval <= params.max
    \/ \E i \in waits' \ waits : (i + 1) * params.interval <= params.max
    \/ DOMAIN posted' \ DOMAIN posted # {}
    \/ settled = Absent /\ settled' # Absent

\* The invocation is nearer to the end of the log.
CatchesUp ==
    /\ UNCHANGED logVars
    /\ \/ iteration' = iteration + 1 /\ iteration \in waits
       \/ iteration' = iteration /\ Place(pc') > Place(pc)

\* The loop has no bound of its own, and each invocation begins it anew; it does not
\* go round in circles all the same.  No step takes back what is recorded.  Apart
\* from a crash and from an attempt that leaves no record, each step records
\* something new within the maximum wait, or brings a replay nearer to the log's end.
LoopLeadsOn ==
    [][ /\ LogIsKept
        /\ \/ crashes' > crashes \/ UNCHANGED <<logVars, localVars>>
           \/ LogGrows \/ CatchesUp ]_vars

\* Every resource ends, whatever its status does, under FairSpec: the wait
\* budget is the only thing that stops a resource that keeps moving.
EventuallySettles == <>(settled # Absent)

\* README "Safe to run again": a start on an available resource and a stop on a
\* stopped resource make no RDS call.
NoCallInTargetState == \A c \in calls : c.status # TargetOf(params.mode)

-------------------------------------------------------------------------------
(* Refinement: the log alone tells what an uninterrupted watch has seen. *)

SeenIn(log) ==
    IF DOMAIN log = {} THEN Absent
    ELSE log[CHOOSE n \in DOMAIN log : \A i \in DOMAIN log : i <= n]

Seen   == SeenIn(described)
Rested == DOMAIN described \subseteq waits
Spent  == Cardinality(waits) * params.interval

Control == INSTANCE ResourceControl
    WITH seen <- Seen, rested <- Rested, spent <- Spent, verdict <- settled

\* Crashes, suspensions and replays are invisible: with them, a resource is
\* still controlled as one uninterrupted watch would control it.
ImplementsControl == Control!ControlSpec

\* What the child context is doing, read off its log.
Stage ==
    CASE settled \in {"available", "stopped"} -> "ok"
      [] settled = "skipped" -> "skipped"
      [] settled \in {"unexpected", "timeout", "step"} -> "failed"
      [] settled = Absent /\ (\E i \in DOMAIN described \ waits : ReadyToWait(i)) -> "waiting"
      [] /\ settled = Absent
         /\ params.slack
         /\ \E i \in DOMAIN described : described[i] = TargetOf(params.mode) -> "posting"
      [] OTHER -> "checking"

Child == INSTANCE ChildControl
    WITH limits <- [interval |-> params.interval, max |-> params.max, slack |-> params.slack],
         stage <- Stage, spent <- Spent

\* With its crashes, suspensions and replays the loop has no other turns, waits and
\* ends than ChildControl allows: an interval is begun only when it fits, and counted
\* once.
ActsAsChild == Child!ChildSpec
===============================================================================
