------------------------- MODULE RunningScheduleWait -------------------------
(***************************************************************************)
(* The pure wait decisions of core/running-schedule-wait.ts: what to do    *)
(* with one observed status, whether another wait fits the budget, and the *)
(* validation of the two wait settings.  No clock, no environment, no RDS. *)
(*                                                                         *)
(* nextWaitStep throws in the source; here a thrown error is a step of     *)
(* kind "throw", so that the decision is a total function.                 *)
(***************************************************************************)
EXTENDS Integers

\* RunningMode: the two operations a schedule asks for.
Modes == {"start", "stop"}

\* The stable statuses a mode moves a resource to, and from.
TargetOf(mode) == IF mode = "start" THEN "available" ELSE "stopped"
SourceOf(mode) == IF mode = "start" THEN "stopped" ELSE "available"

TRANSITIONING_STATES ==
    { "starting", "configuring-enhanced-monitoring", "backing-up", "modifying",
      "stopping", "storage-optimization", "configuring-iam-database-auth",
      "configuring-log-exports" }

isTransitioningState(current) == current \in TRANSITIONING_STATES

\* ResourceAction for a status; a start or a stop is named by its mode.
decideResourceAction(mode, current) ==
    CASE current = "not-found"          -> "not-found"
      [] current = TargetOf(mode)       -> "done"
      [] current = SourceOf(mode)       -> mode
      [] isTransitioningState(current)  -> "wait"
      [] OTHER                          -> "unexpected"

\* Mutated forms: the next interval is not counted in, or the last one is refused.
hasWaitBudget_late(elapsed, interval, max)  == elapsed <= max
hasWaitBudget_early(elapsed, interval, max) == elapsed + interval < max

hasWaitBudget(elapsed, interval, max) == elapsed + interval <= max

\* WaitStep: finish with a status, pause after a command, or throw an error.
Finish(status) == [kind |-> "finish", value |-> status]
Pause(command) == [kind |-> "pause", value |-> command]
Throw(error)   == [kind |-> "throw", value |-> error]

\* Mutated form: a missing resource finishes with its raw status.
nextWaitStep_raw(mode, current, elapsed, interval, max) ==
    LET action == decideResourceAction(mode, current) IN
    CASE action \in {"not-found", "done"} -> Finish(current)
      [] action = "unexpected" -> Throw("unexpected")
      [] action \in Modes \cup {"wait"} ->
            IF hasWaitBudget(elapsed, interval, max)
            THEN Pause(IF action = "wait" THEN "none" ELSE action)
            ELSE Throw("timeout")

\* Mutated form: the command goes out before the budget is looked at.
nextWaitStep_eager(mode, current, elapsed, interval, max) ==
    LET action == decideResourceAction(mode, current) IN
    CASE action = "not-found"  -> Finish("skipped")
      [] action = "done"       -> Finish(current)
      [] action = "unexpected" -> Throw("unexpected")
      [] action \in Modes      -> Pause(action)
      [] action = "wait" ->
            IF hasWaitBudget(elapsed, interval, max) THEN Pause("none")
            ELSE Throw("timeout")

\* A terminal or missing resource finishes even when the budget is spent.
nextWaitStep(mode, current, elapsed, interval, max) ==
    LET action == decideResourceAction(mode, current) IN
    CASE action = "not-found"  -> Finish("skipped")
      [] action = "done"       -> Finish(current)
      [] action = "unexpected" -> Throw("unexpected")
      [] action \in Modes \cup {"wait"} ->
            IF hasWaitBudget(elapsed, interval, max)
            THEN Pause(IF action = "wait" THEN "none" ELSE action)
            ELSE Throw("timeout")

MAX_WAIT_SECONDS_LIMIT == 6900

\* resolveResourceWait accepts the pair; otherwise it throws a validation error.
resolveResourceWait(interval, max) ==
    /\ interval \in Nat \ {0}
    /\ max \in Nat \ {0}
    /\ max >= interval
    /\ max <= MAX_WAIT_SECONDS_LIMIT
==============================================================================
