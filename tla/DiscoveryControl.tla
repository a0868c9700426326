--------------------------- MODULE DiscoveryControl ---------------------------
(***************************************************************************)
(* What a run may rely on of the discovery of its targets: the regions are *)
(* chosen once, each of them is searched once, and the targets are what    *)
(* was found, without the members of a cluster that was found.  There are  *)
(* no pages, no lists and no restarts.  It may fail before it searches,    *)
(* and after that only when dbs and clusters were found together.  (That a *)
(* step has no attempt left is StepFails of ScheduleRun.)                  *)
(***************************************************************************)
EXTENDS Naturals, Sequences, Functions

CONSTANTS Arns, ClusterOf

VARIABLES
    requested,  \* regions of this deployment, none for all: never changes
    enabled,    \* regions of the account
    steady,     \* resources that never lost the tag
    plan,       \* the regions to search, <<>> until chosen
    hits,       \* what the searches found, by position in the plan
    targets,
    outcome     \* searching, listed or failed

controlVars == <<requested, enabled, steady, plan, hits, targets, outcome>>

Hits == UNION Range(hits)

IsMember(a, c) ==
    /\ a.type = "db" /\ c.type = "cluster"
    /\ a.region = c.region /\ c.identifier = ClusterOf[a]

ControlInit ==
    /\ steady \subseteq Arns
    /\ plan = <<>>
    /\ hits = <<>>
    /\ targets = {}
    /\ outcome = "searching"

Choose ==
    /\ outcome = "searching"
    /\ plan = <<>>
    /\ Range(requested) \subseteq Range(enabled)
    /\ plan' = IF requested = <<>> THEN enabled ELSE requested
    /\ UNCHANGED <<requested, enabled, steady, hits, targets, outcome>>

InNextRegion(a) == a.region = plan[Len(hits) + 1]

\* A search takes a while: what carries the tag all along is found, what gets or
\* loses it may be.
Search ==
    /\ outcome = "searching"
    /\ Len(hits) < Len(plan)
    /\ \E S \in SUBSET {a \in Arns : InNextRegion(a)} :
          /\ \A a \in steady : InNextRegion(a) => a \in S
          /\ hits' = Append(hits, S)
    /\ UNCHANGED <<requested, enabled, steady, plan, targets, outcome>>

AllSearched == plan # <<>> /\ Len(hits) = Len(plan)

List ==
    /\ outcome = "searching"
    /\ AllSearched
    /\ targets' = {a \in Hits : \A c \in Hits : ~ IsMember(a, c)}
    /\ outcome' = "listed"
    /\ UNCHANGED <<requested, enabled, steady, plan, hits>>

Fail ==
    /\ outcome = "searching"
    /\ \/ plan = <<>>
       \/ AllSearched /\ \E a, c \in Hits : a.type = "db" /\ c.type = "cluster"
    /\ outcome' = "failed"
    /\ UNCHANGED <<requested, enabled, steady, plan, hits, targets>>

AccountChanges ==
    /\ steady' \subseteq steady
    /\ UNCHANGED <<requested, plan, hits, targets, outcome>>

ControlNext == Choose \/ Search \/ List \/ Fail \/ AccountChanges

ControlSpec == ControlInit /\ [][ControlNext]_controlVars
===============================================================================
