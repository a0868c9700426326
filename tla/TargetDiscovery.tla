--------------------------- MODULE TargetDiscovery ---------------------------
(***************************************************************************)
(* How one execution finds its targets: the regions to search, one paged   *)
(* search by tag in each of them, and the deduplication that drops the     *)
(* members of a cluster that is a target itself.                           *)
(*                                                                         *)
(* The searches and the deduplication are durable steps: what they return  *)
(* is recorded, what they hold while they run is lost when the invocation  *)
(* dies or when the step is retried.  The handler collects the searches in *)
(* a list of its own, which a replay builds up again from the log.  Tags   *)
(* and resources change meanwhile.                                         *)
(***************************************************************************)
EXTENDS RunningScheduleDiscovery, Naturals, FiniteSets, SequencesExt

CONSTANTS
    Arns,           \* resources that may exist: [region, type, identifier]
    ClusterOf,      \* cluster identifier of each db, "" for a db of its own
    EnabledRegions, \* lists DescribeRegions may return, each in its order
    TargetRegions,  \* values TARGET_REGIONS may have: sequences of names
    PageSize,       \* bound: resources on one page of a search
    MaxChanges,     \* bound: changes of tags and resources during a run
    MaxRestarts     \* bound: invocations that die and attempts that are retried

Dbs == {a \in Arns : a.type = "db"}

ASSUME ArnsAssumption ==
    /\ IsFiniteSet(Arns)
    /\ \A a \in Arns : a.type \in {"db", "cluster"} /\ a.identifier # ""
ASSUME ClusterOfAssumption == DOMAIN ClusterOf = Dbs
ASSUME RegionsAssumption ==
    /\ EnabledRegions \cup TargetRegions \subseteq Seq(STRING)
    /\ \A list \in EnabledRegions : list # <<>> /\ IsInjective(list)
ASSUME DiscoveryBounds ==
    PageSize \in Nat \ {0} /\ MaxChanges \in Nat /\ MaxRestarts \in Nat

VARIABLES
    requested,      \* TARGET_REGIONS of this deployment: never changes
    enabled,        \* what DescribeRegions returns now
    tagged, alive,  \* resources that carry the tag, and that exist
    searchRegions,  \* log: result of get-target-regions, <<>> before
    found,          \* log: results of get-resources-<region>, by position
    targets,        \* log: result of deduplicate-target-resources, {} before
    pc,             \* where the invocation is
    searches,       \* searches this invocation has the results of
    discoveredResources,    \* those results, one after the other
    collected,      \* resources the pages of this search returned so far
    looked,         \* resources deduplication has looked at in this attempt
    memberOf,       \* cluster identifiers it found out
    steady,         \* resources tagged and alive since the run began
    changes, restarts

world         == <<requested, enabled, tagged, alive, steady, changes, restarts>>
listVars      == <<searches, discoveredResources>>
memberVars    == <<looked, memberOf>>
discoveryVars == <<world, searchRegions, found, targets, pc, listVars, collected, memberVars>>

-------------------------------------------------------------------------------
(* Targets: core/running-schedule-targets.ts. *)

\* Mutated form: a cluster is known by its identifier alone.
buildClusterKey_global(region, identifier) == identifier

buildClusterKey(region, identifier) == <<region, identifier>>

collectClusterKeysFromArns(arns) ==
    {buildClusterKey(a.region, a.identifier) :
        a \in {b \in Range(arns) : b.type = "cluster"}}

\* Mutated form: the key of the member is built the wrong way round.
shouldExcludeClusterMemberDb_swapped(region, cluster, keys) ==
    cluster # "" /\ buildClusterKey(cluster, region) \in keys

shouldExcludeClusterMemberDb(region, cluster, keys) ==
    cluster # "" /\ buildClusterKey(region, cluster) \in keys

\* What a list keeps, without its order.
filterClusterMemberDbs(arns, clusters, keys) ==
    {a \in Range(arns) :
        a.type = "db" => ~ shouldExcludeClusterMemberDb(a.region, clusters[a], keys)}

-------------------------------------------------------------------------------
DiscoveryInit ==
    /\ requested \in TargetRegions
    /\ enabled \in EnabledRegions
    /\ tagged \in SUBSET Arns
    /\ alive = Arns
    /\ searchRegions = <<>>
    /\ found = <<>>
    /\ targets = {}
    /\ pc = "validate"
    /\ searches = 0
    /\ discoveredResources = <<>>
    /\ collected = <<>>
    /\ looked = 0
    /\ memberOf = <<>>
    /\ steady = tagged
    /\ changes = 0
    /\ restarts = 0

\* TARGET_REGIONS is parsed before any step runs.
ParseRegions ==
    /\ pc = "validate"
    /\ pc' = IF parseTargetRegions(requested) THEN "regions" ELSE "failed"
    /\ UNCHANGED <<world, searchRegions, found, targets, listVars, collected, memberVars>>

\* Mutated form: the list of regions is built up again in every invocation.
GetRegions_appends ==
    /\ pc = "regions"
    /\ IF RegionsAccepted(requested, enabled)
       THEN /\ searchRegions' = searchRegions \o selectTargetRegions(requested, enabled)
            /\ pc' = "search"
       ELSE pc' = "failed" /\ UNCHANGED searchRegions
    /\ UNCHANGED <<world, found, targets, listVars, collected, memberVars>>

\* Mutated form: the enabled regions are listed outside of a durable step.
GetRegions_undurable ==
    /\ pc = "regions"
    /\ IF RegionsAccepted(requested, enabled)
       THEN /\ searchRegions' = selectTargetRegions(requested, enabled)
            /\ pc' = "search"
       ELSE pc' = "failed" /\ UNCHANGED searchRegions
    /\ UNCHANGED <<world, found, targets, listVars, collected, memberVars>>

\* get-target-regions asks for the enabled regions and is recorded; its replay
\* returns the regions of the first time.
GetRegions ==
    /\ pc = "regions"
    /\ \/ /\ searchRegions # <<>>
          /\ pc' = "search"
          /\ UNCHANGED searchRegions
       \/ /\ searchRegions = <<>>
          /\ RegionsAccepted(requested, enabled)
          /\ searchRegions' = selectTargetRegions(requested, enabled)
          /\ pc' = "search"
       \/ /\ searchRegions = <<>>
          /\ ~ RegionsAccepted(requested, enabled)
          /\ pc' = "failed"
          /\ UNCHANGED searchRegions
    /\ UNCHANGED <<world, found, targets, listVars, collected, memberVars>>

\* The region that is searched next, and what it still has to return.
NextRegion == searchRegions[searches + 1]

Remaining ==
    {a \in tagged : a.region = NextRegion /\ a \notin Range(collected)}

Pushes(arns) ==
    /\ searches' = searches + 1
    /\ discoveredResources' = discoveredResources \o arns

\* Mutated form: what a search returned is pushed when it ends, not when it is
\* read from the log.
ReplaySearch_unpushed ==
    /\ pc = "search"
    /\ searches < Len(found)
    /\ searches' = searches + 1
    /\ UNCHANGED <<world, searchRegions, found, targets, pc, discoveredResources,
                   collected, memberVars>>

\* A search whose step is in the log is not made again.
ReplaySearch ==
    /\ pc = "search"
    /\ searches < Len(found)
    /\ Pushes(found[searches + 1])
    /\ UNCHANGED <<world, searchRegions, found, targets, pc, collected, memberVars>>

Searching ==
    /\ pc = "search"
    /\ searches = Len(found)
    /\ searches < Len(searchRegions)

\* One page with a token for the next: a page may hold less than it could.
ReadPage ==
    /\ Searching
    /\ \E page \in SUBSET Remaining :
          /\ page # {}
          /\ Cardinality(page) <= PageSize
          /\ collected' = collected \o SetToSeq(page)
    /\ UNCHANGED <<world, searchRegions, found, targets, pc, listVars, memberVars>>

\* Mutated form: only the last page is kept.
ReadLastPage_only ==
    /\ Searching
    /\ Cardinality(Remaining) <= PageSize
    /\ found' = Append(found, SetToSeq(Remaining))
    /\ Pushes(SetToSeq(Remaining))
    /\ collected' = <<>>
    /\ UNCHANGED <<world, searchRegions, targets, pc, memberVars>>

\* The page without a token ends the search, and the step is recorded.
ReadLastPage ==
    /\ Searching
    /\ Cardinality(Remaining) <= PageSize
    /\ found' = Append(found, collected \o SetToSeq(Remaining))
    /\ Pushes(collected \o SetToSeq(Remaining))
    /\ collected' = <<>>
    /\ UNCHANGED <<world, searchRegions, targets, pc, memberVars>>

EndSearch ==
    /\ pc = "search"
    /\ searches = Len(searchRegions)
    /\ pc' = "deduplicate"
    /\ UNCHANGED <<world, searchRegions, found, targets, listVars, collected, memberVars>>

ClusterKeys == collectClusterKeysFromArns(discoveredResources)

\* The loop over the resources, when there is a cluster among them.
Describing ==
    /\ pc = "deduplicate"
    /\ ClusterKeys # {}
    /\ looked < Len(discoveredResources)

NextArn == discoveredResources[looked + 1]

\* DescribeDBInstances for the next resource, if it is a db.
DescribeMember ==
    /\ Describing
    /\ \/ NextArn.type = "cluster" /\ UNCHANGED memberOf
       \/ /\ NextArn.type = "db"
          /\ NextArn \in alive
          /\ memberOf' = [a \in DOMAIN memberOf \cup {NextArn} |-> ClusterOf[a]]
    /\ looked' = looked + 1
    /\ UNCHANGED <<world, searchRegions, found, targets, pc, listVars, collected>>

\* The db is gone: the attempt throws, and when no retry is left the step and
\* the execution fail.
MemberMissing ==
    /\ Describing
    /\ NextArn.type = "db"
    /\ NextArn \notin alive
    /\ pc' = "failed"
    /\ UNCHANGED <<world, searchRegions, found, targets, listVars, collected, memberVars>>

\* Without a cluster among them the resources are the targets as they are.
Deduplicate ==
    /\ pc = "deduplicate"
    /\ \/ /\ ClusterKeys = {}
          /\ targets' = Range(discoveredResources)
       \/ /\ ClusterKeys # {}
          /\ looked = Len(discoveredResources)
          /\ targets' = filterClusterMemberDbs(discoveredResources, memberOf, ClusterKeys)
    /\ pc' = "listed"
    /\ UNCHANGED <<world, searchRegions, found, listVars, collected, memberVars>>

\* The invocation dies, or the SDK retries the step it was in: what the step
\* and the handler held is gone, what was recorded is read again.
Restart ==
    /\ pc \notin {"listed", "failed"}
    /\ restarts < MaxRestarts
    /\ restarts' = restarts + 1
    /\ pc' = "validate"
    /\ searches' = 0
    /\ discoveredResources' = <<>>
    /\ collected' = <<>>
    /\ looked' = 0
    /\ memberOf' = <<>>
    /\ UNCHANGED <<requested, enabled, tagged, alive, steady, changes, searchRegions,
                   found, targets>>

\* A resource gets or loses the tag, or is deleted; or the account opts in or
\* out of a region.
WorldChanges ==
    /\ changes < MaxChanges
    /\ changes' = changes + 1
    /\ \/ /\ \E a \in Arns :
                \/ a \in alive /\ tagged' = tagged \cup {a} /\ UNCHANGED alive
                \/ tagged' = tagged \ {a} /\ UNCHANGED alive
                \/ tagged' = tagged \ {a} /\ alive' = alive \ {a}
          /\ UNCHANGED enabled
       \/ enabled' \in EnabledRegions /\ UNCHANGED <<tagged, alive>>
    /\ steady' = steady \cap tagged'
    /\ UNCHANGED <<requested, searchRegions, found, targets, pc, listVars, collected,
                   memberVars, restarts>>

Over == pc \in {"listed", "failed"} /\ UNCHANGED discoveryVars

DiscoveryNext ==
    \/ ParseRegions \/ GetRegions
    \/ ReplaySearch \/ ReadPage \/ ReadLastPage \/ EndSearch
    \/ DescribeMember \/ MemberMissing \/ Deduplicate
    \/ Restart \/ WorldChanges \/ Over

DiscoverySpec == DiscoveryInit /\ [][DiscoveryNext]_discoveryVars

-------------------------------------------------------------------------------
(* Properties. *)

\* Type invariant.
DiscoveryTypeOK ==
    /\ requested \in TargetRegions
    /\ tagged \subseteq alive /\ alive \subseteq Arns
    /\ enabled \in EnabledRegions
    /\ searchRegions \in {<<>>, requested} \cup EnabledRegions
    /\ \A i \in DOMAIN found : Range(found[i]) \subseteq Arns
    /\ targets \subseteq Arns
    /\ searches \in 0 .. Len(found)
    /\ Range(discoveredResources) \subseteq Arns
    /\ Range(collected) \subseteq Arns
    /\ looked \in 0 .. Len(discoveredResources)
    /\ DOMAIN memberOf \subseteq Dbs
    /\ steady \subseteq tagged
    /\ pc \in {"validate", "regions", "search", "deduplicate", "listed", "failed"}

\* The cluster of a db, when it is among the resources.
IsClusterOf(c, a) ==
    /\ c.type = "cluster"
    /\ a.type = "db"
    /\ c.region = a.region
    /\ c.identifier = ClusterOf[a]

\* Deduplication drops the members of a cluster that is a target, and nothing else.
\* A db is never controlled beside its own cluster, as their commands would conflict;
\* an equal identifier in another region does not count.
JustMembersDropped ==
    pc = "listed" =>
        /\ targets \subseteq Range(discoveredResources)
        /\ \A a \in Range(discoveredResources) :
              a \in targets <=> ~ \E c \in targets : IsClusterOf(c, a)

\* What carried the tag all along in a searched region is found, whatever the
\* pages and the restarts.
NothingMissed ==
    pc \in {"deduplicate", "listed"} =>
        \A a \in steady :
            a.region \in Range(searchRegions) => a \in Range(discoveredResources)

\* No resource is listed twice, so no two child contexts control the same one:
\* neither pages, nor regions, nor replays repeat one.
NoTargetTwice == IsInjective(discoveredResources)

\* Each recorded search is of the region that stands at its place, and the list
\* of targets comes from all of them, although the enabled regions may change
\* between two invocations.
SearchesMatchRegions ==
    /\ \A i \in DOMAIN found :
          \A a \in Range(found[i]) : a.region = searchRegions[i]
    /\ pc \in {"deduplicate", "listed"} => searches = Len(searchRegions)

\* Doc comment of runSchedule: "A failed resource does not stop the others."
\* Once its regions are accepted, a run gets as far as listing its targets.
OneResourceDoesNotStopOthers ==
    pc = "failed" =>
        \/ ~ parseTargetRegions(requested)
        \/ searchRegions = <<>>

-------------------------------------------------------------------------------
(* Refinement: what is recorded tells what the run has found. *)

Control == INSTANCE DiscoveryControl
    WITH plan    <- searchRegions,
         hits    <- [i \in DOMAIN found |-> Range(found[i])],
         outcome <- IF pc \in {"listed", "failed"} THEN pc ELSE "searching"

\* Pages, retried steps and replays are invisible: the targets are those of one
\* search of each region and one look at what all of them found.
DiscoveryIsControlled == Control!ControlSpec
==============================================================================
