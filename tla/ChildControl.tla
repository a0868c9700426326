----------------------------- MODULE ChildControl -----------------------------
(***************************************************************************)
(* The turns and waits that the child context of one target may have: it   *)
(* checks the resource, waits an interval as long as that fits its         *)
(* maximum, and ends.  With Slack on, a success is announced before it is  *)
(* one.  There is no time in it, nor what a turn calls.                    *)
(*                                                                         *)
(* ResourceProcessing, which has the log of the child and the resource,    *)
(* and ScheduleRun, which has the places and the time, both stay within    *)
(* it.  Neither is shown to have every behaviour of the other.             *)
(***************************************************************************)
EXTENDS Integers

VARIABLES
    limits,     \* interval and maximum of the waits, Slack on: never change
    stage,      \* what the child is doing, or how it ended
    spent       \* seconds it waited

controlVars == <<limits, stage, spent>>

ChildInit ==
    /\ limits \in [interval : Nat \ {0}, max : Nat, slack : BOOLEAN]
    /\ stage = "checking"
    /\ spent = 0

\* A check, with its command if one is due, asks for another one later.
Pause ==
    /\ stage = "checking"
    /\ spent + limits.interval <= limits.max
    /\ stage' = "waiting"
    /\ UNCHANGED <<limits, spent>>

Resume ==
    /\ stage = "waiting"
    /\ stage' = "checking"
    /\ spent' = spent + limits.interval
    /\ UNCHANGED limits

\* The resource has reached its target, and Slack is to hear of it.
Announce ==
    /\ stage = "checking"
    /\ limits.slack
    /\ stage' = "posting"
    /\ UNCHANGED <<limits, spent>>

Return ==
    /\ \/ stage = "checking" /\ stage' = "skipped"
       \/ stage = "checking" /\ ~limits.slack /\ stage' = "ok"
       \/ stage = "posting" /\ stage' = "ok"
    /\ UNCHANGED <<limits, spent>>

Throw ==
    /\ stage \in {"checking", "posting"}
    /\ stage' = "failed"
    /\ UNCHANGED <<limits, spent>>

ChildNext == Pause \/ Resume \/ Announce \/ Return \/ Throw

ChildSpec == ChildInit /\ [][ChildNext]_controlVars
===============================================================================
