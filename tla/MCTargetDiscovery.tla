-------------------------- MODULE MCTargetDiscovery --------------------------
(***************************************************************************)
(* A small account for TLC: a cluster with the same identifier in each of  *)
(* two regions, a member of each, and a db of its own.                     *)
(***************************************************************************)
EXTENDS TargetDiscovery

Arn(region, type, identifier) ==
    [region |-> region, type |-> type, identifier |-> identifier]

ClusterA == Arn("r1", "cluster", "c")
ClusterB == Arn("r2", "cluster", "c")
MemberA  == Arn("r1", "db", "m")
MemberB  == Arn("r2", "db", "m")
Single   == Arn("r1", "db", "s")

MCArns == {ClusterA, ClusterB, MemberA, MemberB, Single}

MCClusterOf ==
    [a \in {MemberA, MemberB, Single} |-> IF a = Single THEN "" ELSE "c"]

\* The enabled regions as the account may see them, before and after opting in.
MCEnabledRegions == {<<"r2", "r1">>, <<"r1">>}

\* All regions, one, both in the other order, a name twice, a blank name, and
\* a region that is not enabled.
MCTargetRegions ==
    {<<>>, <<"r1">>, <<"r1", "r2">>, <<"r1", "r1">>, <<"">>, <<"r1", "r9">>}
==============================================================================
