---------------------------- MODULE SchedulerConfig ----------------------------
(***************************************************************************)
(* From the props of the construct to the settings a run works with.  The  *)
(* construct validates the props at synthesis and writes the environment   *)
(* of the function, the input of the two schedules and the conditions of   *)
(* the role; the handler reads environment and input in every run and      *)
(* validates them again, with code of its own.                             *)
(*                                                                         *)
(* An optional prop is a set: {} when it is left out, {v} when it is v.    *)
(* Numbers that are no integers are refused like -1, by the same test.     *)
(***************************************************************************)
EXTENDS RunningScheduleWait, RunningScheduleDiscovery

CONSTANTS
    Seconds,        \* values of the two wait props
    RegionLists,    \* values of targetRegions: sequences of names
    SecretNames,    \* values of secretName, "" for a missing one
    TagKeys,        \* values of tagKey, "" among them
    TagValues,      \* values of the tags of resources
    Untagged        \* what a resource has for a key it is not tagged with

ASSUME SecondsAssumption == Seconds \subseteq Int
ASSUME SecretNamesAssumption == "" \in SecretNames
ASSUME UntaggedAssumption == Untagged \notin TagValues

DEFAULT_WAIT_INTERVAL_SECONDS == 60
DEFAULT_MAX_WAIT_SECONDS == 1800

Choices == {"ENABLED", "DISABLED"}

Optional(S) == {{}} \cup {{v} : v \in S}

\* The operator ?? of the source.
OrElse(prop, default) == IF prop = {} THEN default ELSE CHOOSE v \in prop : TRUE

VARIABLES
    props,          \* what the user of the construct gives: never changes
    stage,          \* how far the configuration has come
    environment,    \* variables of the function, once deployed
    schedules,      \* input of the schedules that are enabled
    granted,        \* the function may read the Slack secret
    control,        \* condition under which the role may start and stop a resource
    settings        \* what a run works with, once the handler accepted it

configVars == <<props, stage, environment, schedules, granted, control, settings>>

Props ==
    [tagKey           : TagKeys,
     tagValues        : SUBSET TagValues,
     enableScheduling : Optional(Choices),
     intervalSeconds  : Optional(Seconds),
     maxSeconds       : Optional(Seconds),
     targetRegions    : Optional(RegionLists),
     slack            : Optional([enable : Optional(Choices),
                                  secretName : SecretNames,
                                  notifyOnWaitTimeout : Optional(Choices)])]

Environments ==
    [WAIT_INTERVAL_SECONDS        : Int,
     MAX_WAIT_SECONDS             : Int,
     TARGET_REGIONS               : RegionLists \cup {<<>>},
     NOTIFY_SLACK_ON_WAIT_TIMEOUT : {"true", "false"},
     SLACK_SECRET_NAME            : SecretNames]

Inputs == [TagKey : TagKeys, TagValues : SUBSET TagValues, Mode : Modes]

Conditions == [key : TagKeys, values : SUBSET TagValues]

-------------------------------------------------------------------------------
(* Synthesis: the construct. *)

\* resolveSlackNotification: enabled only when the enable prop says so, and then
\* with a secret.
SlackState(slack) ==
    IF slack = {} THEN "DISABLED"
    ELSE OrElse(OrElse(slack, "").enable, "DISABLED")

SlackAccepted(slack) ==
    SlackState(slack) = "ENABLED" => OrElse(slack, "").secretName # ""

NotifyOnWaitTimeout(slack) ==
    IF SlackState(slack) = "ENABLED"
    THEN OrElse(OrElse(slack, "").notifyOnWaitTimeout, "ENABLED")
    ELSE "DISABLED"

\* Mutated form: synthesis checks each value but not one against the other.
ConstructAcceptsWait_apart(interval, max) ==
    /\ interval > 0
    /\ max > 0
    /\ max <= MAX_WAIT_SECONDS_LIMIT

\* resolveResourceWait of the construct, a copy of the one in the handler.
ConstructAcceptsWait(interval, max) ==
    /\ interval > 0
    /\ max > 0
    /\ ~ (max < interval)
    /\ ~ (max > MAX_WAIT_SECONDS_LIMIT)

\* Mutated form: an empty list is let through.
ConstructAcceptsRegions_empty(regions) ==
    \A list \in regions :
        /\ \A i \in DOMAIN list : list[i] # ""
        /\ Len(list) = 0 \/ \A i, j \in DOMAIN list : i # j => list[i] # list[j]

\* resolveTargetRegions of the construct: a list that is given has a name in it,
\* no blank one, and none twice.
ConstructAcceptsRegions(regions) ==
    \A list \in regions :
        /\ Len(list) # 0
        /\ \A i \in DOMAIN list : list[i] # ""
        /\ \A i, j \in DOMAIN list : i # j => list[i] # list[j]

\* Mutated form: the enum value is written as it is.
NotifyText_enum(choice) == choice

NotifyText(choice) == IF choice = "ENABLED" THEN "true" ELSE "false"

\* Mutated form: the name of the secret is written whenever there is one.
SecretNameOf_always(slack) == IF slack = {} THEN "" ELSE OrElse(slack, "").secretName

\* The variable is left out, which reads as "", unless Slack is enabled.
SecretNameOf(slack) ==
    IF SlackState(slack) = "ENABLED" THEN OrElse(slack, "").secretName ELSE ""

\* Mutated form: the condition asks for the key with any value.
rdsResourceTagCondition_anyValue(p) == [key |-> p.tagKey, values |-> TagValues]

\* StringEquals on aws:ResourceTag/<tagKey>.
rdsResourceTagCondition(p) == [key |-> p.tagKey, values |-> p.tagValues]

\* The start and the stop schedule carry the same filter.  Only an explicit
\* disabled value turns them off.
ScheduleInputs(p) ==
    IF p.enableScheduling = {"DISABLED"} THEN {}
    ELSE {[TagKey |-> p.tagKey, TagValues |-> p.tagValues, Mode |-> mode] : mode \in Modes}

IntervalOf(p) == OrElse(p.intervalSeconds, DEFAULT_WAIT_INTERVAL_SECONDS)
MaxOf(p)      == OrElse(p.maxSeconds, DEFAULT_MAX_WAIT_SECONDS)

EnvironmentOf(p) ==
    [WAIT_INTERVAL_SECONDS        |-> IntervalOf(p),
     MAX_WAIT_SECONDS             |-> MaxOf(p),
     TARGET_REGIONS               |-> OrElse(p.targetRegions, <<>>),
     NOTIFY_SLACK_ON_WAIT_TIMEOUT |-> NotifyText(NotifyOnWaitTimeout(p.slack)),
     SLACK_SECRET_NAME            |-> SecretNameOf(p.slack)]

ConstructAccepts(p) ==
    /\ SlackAccepted(p.slack)
    /\ ConstructAcceptsWait(IntervalOf(p), MaxOf(p))
    /\ ConstructAcceptsRegions(p.targetRegions)

Synthesize ==
    /\ stage = "props"
    /\ ConstructAccepts(props)
    /\ stage' = "deployed"
    /\ environment' = {EnvironmentOf(props)}
    /\ schedules' = ScheduleInputs(props)
    /\ control' = {rdsResourceTagCondition(props)}
    /\ granted' = (SlackState(props.slack) = "ENABLED")
    /\ UNCHANGED <<props, settings>>

\* One of the validations throws, and nothing is deployed.
SynthesisFails ==
    /\ stage = "props"
    /\ ~ ConstructAccepts(props)
    /\ stage' = "refused"
    /\ UNCHANGED <<props, environment, schedules, granted, control, settings>>

-------------------------------------------------------------------------------
(* A run: the handler. *)

\* An empty list of values is not missing.
HandlerAccepts(e, params) ==
    /\ params.TagKey # ""
    /\ resolveResourceWait(e.WAIT_INTERVAL_SECONDS, e.MAX_WAIT_SECONDS)
    /\ parseTargetRegions(e.TARGET_REGIONS)

SettingsOf(e, params) ==
    [intervalSeconds  |-> e.WAIT_INTERVAL_SECONDS,
     maxSeconds       |-> e.MAX_WAIT_SECONDS,
     requestedRegions |-> e.TARGET_REGIONS,
     filter           |-> params,
     fetchesSecret    |-> e.SLACK_SECRET_NAME # "",
     notifies         |-> e.NOTIFY_SLACK_ON_WAIT_TIMEOUT = "true"]

\* A schedule fires: the handler reads the environment and its input, or throws a
\* validation error, and then so will every later run.
ReadEnvironment ==
    /\ stage = "deployed"
    /\ \E e \in environment, params \in schedules :
          IF HandlerAccepts(e, params)
          THEN stage' = "running" /\ settings' = {SettingsOf(e, params)}
          ELSE stage' = "rejected" /\ UNCHANGED settings
    /\ UNCHANGED <<props, environment, schedules, granted, control>>

\* Nothing deployed, no schedule that fires, or a run that has its settings.
Configured ==
    /\ \/ stage \in {"refused", "running", "rejected"}
       \/ stage = "deployed" /\ schedules = {}
    /\ UNCHANGED configVars

ConfigInit ==
    /\ props \in Props
    /\ stage = "props"
    /\ environment = {}
    /\ schedules = {}
    /\ granted = FALSE
    /\ control = {}
    /\ settings = {}

ConfigNext ==
    \/ Synthesize \/ SynthesisFails
    \/ ReadEnvironment
    \/ Configured

ConfigSpec == ConfigInit /\ [][ConfigNext]_configVars

-------------------------------------------------------------------------------
(* Properties. *)

\* Type invariant.
ConfigTypeOK ==
    /\ props \in Props
    /\ stage \in {"props", "deployed", "refused", "running", "rejected"}
    /\ environment \subseteq Environments
    /\ schedules \subseteq Inputs
    /\ control \subseteq Conditions
    /\ granted \in BOOLEAN

\* What synthesis accepts the handler accepts, or the deployment would fail in
\* every run: the two copies of the validations agree.  The one exception is an
\* empty tag key, which the construct does not look at.
DeployedIsAccepted == stage = "rejected" => props.tagKey = ""

\* A run searches every enabled region just when targetRegions is left out, and
\* otherwise the regions that are listed there and no others.
RegionsMeanWhatPropsSay ==
    \A s \in settings :
        /\ s.requestedRegions = <<>> <=> props.targetRegions = {}
        /\ \A list \in props.targetRegions :
              \A all \in RegionLists :
                 selectTargetRegions(s.requestedRegions, all) = list

\* A resource, as its tags tell it: the search of a run finds it, with any value
\* when the filter has none; the role may start and stop it.
Tags == [TagKeys -> TagValues \cup {Untagged}]

Found(filter, tags) ==
    /\ tags[filter.TagKey] # Untagged
    /\ filter.TagValues = {} \/ tags[filter.TagKey] \in filter.TagValues

Permitted(condition, tags) == tags[condition.key] \in condition.values

\* README, of the troubleshooting and of the permissions: what a run finds is what
\* it may start and stop, no more and no less.  An empty tagValues is the exception:
\* it finds every resource with the key, and may control none of them.
FoundMayBeControlled ==
    \A s \in settings, condition \in control : \A tags \in Tags :
        IF props.tagValues # {}
        THEN Found(s.filter, tags) <=> Permitted(condition, tags)
        ELSE ~ Permitted(condition, tags)

\* A run uses Slack just when it is enabled and may read the secret, and posts
\* timeouts only then.
SlackNeedsGrant ==
    \A s \in settings :
        /\ s.fetchesSecret <=> granted
        /\ s.notifies => s.fetchesSecret
===============================================================================
