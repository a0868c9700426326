--------------------------- MODULE ResourceControl ---------------------------
(***************************************************************************)
(* What the control of one resource promises, with no invocations, no      *)
(* replay and no checkpoint log: it looks at the resource, asks RDS for    *)
(* the transition only while its latest look justifies it, rests for one   *)
(* interval, looks again, and gives a verdict that its latest look         *)
(* explains.  ResourceProcessing implements this across crashes.           *)
(***************************************************************************)
EXTENDS RunningScheduleWait

CONSTANTS Statuses, Drift, WaitSettings

VARIABLES
    params,     \* mode, resource type, Slack and wait settings: never change
    status,     \* status of the resource in RDS
    seen,       \* the latest look, "none" before the first
    rested,     \* an interval has elapsed since the latest look
    spent,      \* seconds rested so far
    verdict     \* how it ended, "none" until then

controlVars == <<params, status, seen, rested, spent, verdict>>

ControlInit ==
    /\ params \in [mode : Modes, type : {"db", "cluster"}, slack : BOOLEAN, notify : BOOLEAN,
                   interval : Nat, max : Nat]
    /\ <<params.interval, params.max>> \in WaitSettings
    /\ status \in Statuses
    /\ seen = "none"
    /\ rested = TRUE
    /\ spent = 0
    /\ verdict = "none"

Watching == verdict = "none"

CanRest == spent + params.interval <= params.max

\* A look may fail; a resource that is gone is seen as such only for a cluster.
Look ==
    /\ Watching
    /\ rested
    /\ \/ seen' = "step-failed"
       \/ status # "gone" /\ seen' = status
       \/ status = "gone" /\ params.type = "cluster" /\ seen' = "not-found"
    /\ rested' = FALSE
    /\ UNCHANGED <<params, status, spent, verdict>>

\* The transition is asked for while the latest look is the opposite state.
Command ==
    /\ Watching
    /\ ~rested
    /\ seen = SourceOf(params.mode)
    /\ CanRest
    /\ status = SourceOf(params.mode)
    /\ status' = IF params.mode = "start" THEN "starting" ELSE "stopping"
    /\ UNCHANGED <<params, seen, rested, spent, verdict>>

Rest ==
    /\ Watching
    /\ ~rested
    /\ seen \in {SourceOf(params.mode)} \cup TRANSITIONING_STATES
    /\ CanRest
    /\ rested' = TRUE
    /\ spent' = spent + params.interval
    /\ UNCHANGED <<params, status, seen, verdict>>

\* The verdicts a look explains, apart from failed steps.
VerdictOn(look) ==
    CASE look = "not-found"            -> "skipped"
      [] look = TargetOf(params.mode)  -> look
      [] look \in {SourceOf(params.mode)} \cup TRANSITIONING_STATES -> "timeout"
      [] OTHER                         -> "unexpected"

\* "step" stands for a call that kept failing: the look itself, the command,
\* or the Slack message about a verdict that is posted.
MayFail ==
    \/ seen = "step-failed"
    \/ seen = SourceOf(params.mode) /\ CanRest
    \/ seen = TargetOf(params.mode) /\ params.slack
    \/ /\ seen \in {SourceOf(params.mode)} \cup TRANSITIONING_STATES
       /\ ~CanRest
       /\ params.slack
       /\ params.notify

Conclude ==
    /\ Watching
    /\ ~rested
    /\ \/ verdict' = "step" /\ MayFail
       \/ /\ seen # "step-failed"
          /\ verdict' = VerdictOn(seen)
          /\ verdict' = "timeout" => ~CanRest
    /\ UNCHANGED <<params, status, seen, rested, spent>>

StatusChanges ==
    /\ \E change \in Drift : change[1] = status /\ status' = change[2]
    /\ UNCHANGED <<params, seen, rested, spent, verdict>>

ControlNext == Look \/ Command \/ Rest \/ Conclude \/ StatusChanges

ControlSpec == ControlInit /\ [][ControlNext]_controlVars
==============================================================================
