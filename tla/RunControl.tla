------------------------------ MODULE RunControl ------------------------------
(***************************************************************************)
(* What a run of a schedule promises, with no steps, no replay, no Slack   *)
(* and no time: it learns its targets once, begins and settles each at     *)
(* most once, and ends in one of three ways.  It succeeds when every       *)
(* target did; it raises the alarm and fails either before it touches any  *)
(* target, or when all of them are settled; or it is stopped.              *)
(***************************************************************************)
EXTENDS Integers

CONSTANT MaxTargets

VARIABLES
    plan,       \* number of targets, Unplanned until known
    fate,       \* what became of each target
    alarmed,    \* the run has reported its failure
    outcome     \* how it ended

controlVars == <<plan, fate, alarmed, outcome>>

Unplanned == -1

Targets == {t \in 1 .. MaxTargets : t <= plan}

Fates == {"ok", "skipped", "failed"}

ControlInit ==
    /\ plan = Unplanned
    /\ fate = [t \in 1 .. MaxTargets |-> "untouched"]
    /\ alarmed = FALSE
    /\ outcome = "running"

Working == outcome = "running" /\ ~alarmed

Plan ==
    /\ Working
    /\ plan = Unplanned
    /\ plan' \in 1 .. MaxTargets
    /\ UNCHANGED <<fate, alarmed, outcome>>

\* There is nothing to start or stop.
NothingToDo ==
    /\ Working
    /\ plan = Unplanned
    /\ plan' = 0
    /\ outcome' = "succeeded"
    /\ UNCHANGED <<fate, alarmed>>

Begin(t) ==
    /\ Working
    /\ fate[t] = "untouched"
    /\ fate' = [fate EXCEPT ![t] = "begun"]
    /\ UNCHANGED <<plan, alarmed, outcome>>

Settle(t) ==
    /\ Working
    /\ fate[t] = "begun"
    /\ \E how \in Fates : fate' = [fate EXCEPT ![t] = how]
    /\ UNCHANGED <<plan, alarmed, outcome>>

\* All or nothing: a failed target is reported only when no other is open.
Alarm ==
    /\ Working
    /\ \/ \A t \in 1 .. MaxTargets : fate[t] = "untouched"
       \/ /\ \A t \in Targets : fate[t] \in Fates
          /\ \E t \in Targets : fate[t] = "failed"
    /\ alarmed' = TRUE
    /\ UNCHANGED <<plan, fate, outcome>>

Succeed ==
    /\ Working
    /\ plan # Unplanned
    /\ \A t \in Targets : fate[t] \in {"ok", "skipped"}
    /\ outcome' = "succeeded"
    /\ UNCHANGED <<plan, fate, alarmed>>

Fail ==
    /\ outcome = "running"
    /\ alarmed
    /\ outcome' = "failed"
    /\ UNCHANGED <<plan, fate, alarmed>>

\* The service may stop the run at any time.
Stop ==
    /\ outcome = "running"
    /\ outcome' = "timed-out"
    /\ UNCHANGED <<plan, fate, alarmed>>

ControlNext ==
    \/ Plan \/ NothingToDo
    \/ \E t \in Targets : Begin(t) \/ Settle(t)
    \/ Alarm \/ Succeed \/ Fail \/ Stop

ControlSpec == ControlInit /\ [][ControlNext]_controlVars
===============================================================================
