------------------------ MODULE RunningScheduleDiscovery ------------------------
(***************************************************************************)
(* The pure region choice of core/running-schedule-discovery.ts.  A region *)
(* list is a sequence of names; a thrown error is a FALSE verdict on it.   *)
(***************************************************************************)
EXTENDS Sequences, Functions

\* Mutated form: a name that is given twice is not refused.
parseTargetRegions_lenient(raw) == "" \notin Range(raw)

\* parseTargetRegions accepts names that are not blank, each at most once.
parseTargetRegions(raw) == IsInjective(raw) /\ "" \notin Range(raw)

\* selectTargetRegions throws when a requested region is not enabled.
RegionsAccepted(wanted, list) == Range(wanted) \subseteq Range(list)

selectTargetRegions(wanted, list) == IF wanted = <<>> THEN list ELSE wanted
===============================================================================
