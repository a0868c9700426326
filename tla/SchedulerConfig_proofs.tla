------------------------- MODULE SchedulerConfig_proofs -------------------------
(***************************************************************************)
(* The validations of the construct and of the handler agree for every     *)
(* value of the props, not only around the bounds that TLC tries.          *)
(*                                                                         *)
(* The invariant says that what is deployed is a function of the props     *)
(* that synthesis accepted, and what a run works with a function of what   *)
(* is deployed; the rest is about these functions.                         *)
(***************************************************************************)
EXTENDS SchedulerConfig, TLAPS

DeployedInv ==
    /\ environment \subseteq {EnvironmentOf(props)}
    /\ schedules \subseteq ScheduleInputs(props)
    /\ control \subseteq {rdsResourceTagCondition(props)}
    /\ stage = "props" => environment = {}
    /\ environment # {} => ConstructAccepts(props) /\ granted = (SlackState(props.slack) = "ENABLED")

RunningInv ==
    /\ \A s \in settings :
          \E params \in schedules :
             environment # {} /\ s = SettingsOf(EnvironmentOf(props), params)
    /\ stage = "rejected" =>
          /\ environment # {}
          /\ \E params \in schedules : ~ HandlerAccepts(EnvironmentOf(props), params)

CInv == ConfigTypeOK /\ DeployedInv /\ RunningInv

-------------------------------------------------------------------------------
(* Props. *)

\* An optional prop is left out or has one value.
LEMMA OptionalCases ==
    ASSUME NEW S, NEW prop \in Optional(S)
    PROVE  prop = {} \/ \E v \in S : prop = {v}
BY DEF Optional

LEMMA OrElseValue ==
    /\ \A default : OrElse({}, default) = default
    /\ \A v, default : OrElse({v}, default) = v
<1>1. ASSUME NEW v PROVE (CHOOSE w \in {v} : TRUE) = v
  OBVIOUS
<1> QED BY <1>1 DEF OrElse

LEMMA OrElseType ==
    ASSUME NEW S, NEW prop \in Optional(S), NEW default
    PROVE  OrElse(prop, default) \in S \cup {default}
<1>1. CASE prop = {}
  BY <1>1, OrElseValue
<1>2. ASSUME NEW v \in S, prop = {v} PROVE OrElse(prop, default) = v
  BY <1>2, OrElseValue
<1> QED BY <1>1, <1>2, OptionalCases

LEMMA OrElseInteger ==
    ASSUME NEW prop \in Optional(Seconds), NEW default \in Int
    PROVE  OrElse(prop, default) \in Int
<1>1. OrElse(prop, default) \in Seconds \cup {default}
  BY OrElseType
<1> QED BY <1>1, SecondsAssumption

LEMMA EmptyList == DOMAIN <<>> = {} /\ Len(<<>>) = 0
OBVIOUS

LEMMA WaitTypes ==
    ASSUME NEW p \in Props
    PROVE  IntervalOf(p) \in Int /\ MaxOf(p) \in Int
<1>1. p.intervalSeconds \in Optional(Seconds) /\ p.maxSeconds \in Optional(Seconds)
  BY DEF Props
<1> QED BY <1>1, OrElseInteger
        DEF IntervalOf, MaxOf, DEFAULT_WAIT_INTERVAL_SECONDS, DEFAULT_MAX_WAIT_SECONDS

\* Slack is off, or it is on with the settings that were given.
LEMMA SlackCases ==
    ASSUME NEW p \in Props
    PROVE  /\ SlackState(p.slack) \in Choices
           /\ NotifyOnWaitTimeout(p.slack) \in Choices
           /\ SecretNameOf(p.slack) \in SecretNames
           /\ SlackAccepted(p.slack) =>
                 (SecretNameOf(p.slack) # "" <=> SlackState(p.slack) = "ENABLED")
           /\ NotifyOnWaitTimeout(p.slack) = "ENABLED" => SlackState(p.slack) = "ENABLED"
<1> DEFINE Slacks == [enable : Optional(Choices), secretName : SecretNames,
                      notifyOnWaitTimeout : Optional(Choices)]
<1>1. p.slack \in Optional(Slacks)
  BY DEF Props
<1>2. CASE p.slack = {}
  BY <1>2, SecretNamesAssumption DEF SlackState, NotifyOnWaitTimeout, SecretNameOf, SlackAccepted, Choices
<1>3. CASE p.slack # {}
  <2>1. PICK slack \in Slacks : p.slack = {slack} /\ OrElse(p.slack, "") = slack
    <3> HIDE DEF Slacks
    <3>1. \E v \in Slacks : p.slack = {v}
      BY <1>1, <1>3, OptionalCases
    <3> QED BY <3>1, OrElseValue
  <2>2. /\ slack.enable \in Optional(Choices) /\ slack.notifyOnWaitTimeout \in Optional(Choices)
        /\ slack.secretName \in SecretNames
    OBVIOUS
  <2>3. ASSUME NEW prop \in Optional(Choices), NEW default \in Choices
        PROVE  OrElse(prop, default) \in Choices
    BY OrElseType
  <2>4. /\ OrElse(slack.enable, "DISABLED") \in Choices
        /\ OrElse(slack.notifyOnWaitTimeout, "ENABLED") \in Choices
    BY <2>2, <2>3 DEF Choices
  <2> QED BY <1>3, <2>1, <2>2, <2>4, SecretNamesAssumption
          DEF SlackState, NotifyOnWaitTimeout, SecretNameOf, SlackAccepted, Choices
<1> QED BY <1>2, <1>3

LEMMA InputFields ==
    ASSUME NEW p, NEW params \in ScheduleInputs(p)
    PROVE  params.TagKey = p.tagKey /\ params.TagValues = p.tagValues
<1>1. p.enableScheduling # {"DISABLED"}
  BY DEF ScheduleInputs
<1>2. \E mode \in Modes :
         params = [TagKey |-> p.tagKey, TagValues |-> p.tagValues, Mode |-> mode]
  BY <1>1 DEF ScheduleInputs
<1> QED BY <1>2

LEMMA WaitChecksAgree ==
    ASSUME NEW interval \in Int, NEW max \in Int, ConstructAcceptsWait(interval, max)
    PROVE  resolveResourceWait(interval, max)
BY DEF ConstructAcceptsWait, resolveResourceWait, MAX_WAIT_SECONDS_LIMIT

\* What synthesis accepts of the wait settings and of the regions, the handler does.
LEMMA ValidationsAgree ==
    ASSUME NEW p \in Props, ConstructAccepts(p), NEW params \in ScheduleInputs(p), p.tagKey # ""
    PROVE  HandlerAccepts(EnvironmentOf(p), params)
<1>1. params.TagKey = p.tagKey
  BY InputFields
<1>2. resolveResourceWait(IntervalOf(p), MaxOf(p))
  <2>1. IntervalOf(p) \in Int /\ MaxOf(p) \in Int
    BY WaitTypes
  <2>2. ConstructAcceptsWait(IntervalOf(p), MaxOf(p))
    BY DEF ConstructAccepts
  <2> QED BY <2>1, <2>2, WaitChecksAgree
<1>3. parseTargetRegions(OrElse(p.targetRegions, <<>>))
  <2>1. p.targetRegions \in Optional(RegionLists)
    BY DEF Props
  <2>2. CASE p.targetRegions = {}
    BY <2>2, OrElseValue, EmptyList DEF parseTargetRegions, IsInjective, Range
  <2>3. ASSUME NEW list \in RegionLists, p.targetRegions = {list}
        PROVE  parseTargetRegions(OrElse(p.targetRegions, <<>>))
    <3>1. OrElse(p.targetRegions, <<>>) = list
      BY <2>3, OrElseValue
    <3> QED BY <2>3, <3>1
            DEF ConstructAccepts, ConstructAcceptsRegions, parseTargetRegions, IsInjective, Range
  <2> QED BY <2>1, <2>2, <2>3, OptionalCases
<1> QED BY <1>1, <1>2, <1>3 DEF HandlerAccepts, EnvironmentOf

LEMMA EnvironmentType ==
    ASSUME NEW p \in Props
    PROVE  EnvironmentOf(p) \in Environments
<1>1. OrElse(p.targetRegions, <<>>) \in RegionLists \cup {<<>>}
  <2>1. p.targetRegions \in Optional(RegionLists)
    BY DEF Props
  <2> QED BY <2>1, OrElseType
<1>2. NotifyText(NotifyOnWaitTimeout(p.slack)) \in {"true", "false"}
  BY DEF NotifyText
<1> QED BY <1>1, <1>2, WaitTypes, SlackCases DEF EnvironmentOf, Environments

LEMMA InputTypes ==
    ASSUME NEW p \in Props
    PROVE  ScheduleInputs(p) \subseteq Inputs /\ rdsResourceTagCondition(p) \in Conditions
BY DEF Props, ScheduleInputs, Inputs, rdsResourceTagCondition, Conditions

-------------------------------------------------------------------------------
(* The invariant. *)

LEMMA ConfigInitInv == ConfigInit => CInv
BY DEF ConfigInit, CInv, ConfigTypeOK, DeployedInv, RunningInv

LEMMA ConfigStepInv == CInv /\ [ConfigNext]_configVars => CInv'
<1> SUFFICES ASSUME CInv, [ConfigNext]_configVars PROVE CInv'
  OBVIOUS
<1>1. CASE Synthesize
  <2>1. /\ props \in Props /\ props' = props /\ settings' = settings
        /\ environment' = {EnvironmentOf(props)} /\ schedules' = ScheduleInputs(props)
        /\ control' = {rdsResourceTagCondition(props)}
        /\ granted' = (SlackState(props.slack) = "ENABLED") /\ stage' = "deployed"
        /\ ConstructAccepts(props)
    BY <1>1 DEF Synthesize, CInv, ConfigTypeOK
  <2>2. settings = {}
    BY <1>1 DEF Synthesize, CInv, RunningInv, DeployedInv
  <2>3. ConfigTypeOK'
    BY <2>1, EnvironmentType, InputTypes DEF ConfigTypeOK
  <2> QED BY <2>1, <2>2, <2>3 DEF CInv, DeployedInv, RunningInv
<1>2. CASE SynthesisFails
  BY <1>2 DEF SynthesisFails, CInv, ConfigTypeOK, DeployedInv, RunningInv
<1>3. CASE ReadEnvironment
  <2>1. PICK e \in environment, params \in schedules :
           IF HandlerAccepts(e, params)
           THEN stage' = "running" /\ settings' = {SettingsOf(e, params)}
           ELSE stage' = "rejected" /\ settings' = settings
    BY <1>3 DEF ReadEnvironment
  <2>2. e = EnvironmentOf(props) /\ UNCHANGED <<props, environment, schedules, granted, control>>
    BY <1>3, <2>1 DEF ReadEnvironment, CInv, DeployedInv
  <2>3. ConfigTypeOK' /\ DeployedInv'
    BY <2>1, <2>2 DEF CInv, ConfigTypeOK, DeployedInv
  <2>4. RunningInv'
    BY <2>1, <2>2 DEF CInv, RunningInv
  <2> QED BY <2>3, <2>4 DEF CInv
<1>4. CASE UNCHANGED configVars
  BY <1>4 DEF configVars, CInv, ConfigTypeOK, DeployedInv, RunningInv
<1> QED BY <1>1, <1>2, <1>3, <1>4 DEF ConfigNext, Configured

\* What a run works with, field by field.
LEMMA SettingsFields ==
    ASSUME CInv, NEW s \in settings
    PROVE  /\ props \in Props /\ ConstructAccepts(props)
           /\ granted = (SlackState(props.slack) = "ENABLED")
           /\ s.requestedRegions = OrElse(props.targetRegions, <<>>)
           /\ s.filter.TagKey = props.tagKey /\ s.filter.TagValues = props.tagValues
           /\ s.fetchesSecret <=> SecretNameOf(props.slack) # ""
           /\ s.notifies <=> NotifyText(NotifyOnWaitTimeout(props.slack)) = "true"
<1>1. PICK params \in schedules : environment # {} /\ s = SettingsOf(EnvironmentOf(props), params)
  BY DEF CInv, RunningInv
<1>2. /\ props \in Props /\ ConstructAccepts(props)
      /\ granted = (SlackState(props.slack) = "ENABLED") /\ params \in ScheduleInputs(props)
  BY <1>1 DEF CInv, ConfigTypeOK, DeployedInv
<1>3. s.filter = params /\ s.requestedRegions = OrElse(props.targetRegions, <<>>)
  BY <1>1 DEF SettingsOf, EnvironmentOf
<1>4. s.fetchesSecret <=> SecretNameOf(props.slack) # ""
  BY <1>1 DEF SettingsOf, EnvironmentOf
<1>5. s.notifies <=> NotifyText(NotifyOnWaitTimeout(props.slack)) = "true"
  BY <1>1 DEF SettingsOf, EnvironmentOf
<1> QED BY <1>2, <1>3, <1>4, <1>5, InputFields

LEMMA ConfigInvariant == ConfigSpec => []CInv
BY ConfigInitInv, ConfigStepInv, PTL DEF ConfigSpec

\* ConfigSpec keeps its types: the environment holds what the handler parses.
THEOREM ConfigTypeCorrect == ConfigSpec => []ConfigTypeOK
<1>1. CInv => ConfigTypeOK
  BY DEF CInv
<1> QED BY <1>1, ConfigInvariant, PTL

\* Whatever the props, what deploys is refused by no run, but for an empty tag key.
THEOREM DeployedRuns == ConfigSpec => []DeployedIsAccepted
<1>1. CInv => DeployedIsAccepted
  BY ValidationsAgree DEF CInv, ConfigTypeOK, DeployedInv, RunningInv, DeployedIsAccepted
<1> QED BY <1>1, ConfigInvariant, PTL

\* Every region is searched just when none is named, and else those named.
THEOREM RegionsAsGiven == ConfigSpec => []RegionsMeanWhatPropsSay
<1>1. CInv => RegionsMeanWhatPropsSay
  <2> SUFFICES ASSUME CInv, NEW s \in settings
               PROVE  /\ s.requestedRegions = <<>> <=> props.targetRegions = {}
                      /\ \A list \in props.targetRegions :
                            \A all \in RegionLists :
                               selectTargetRegions(s.requestedRegions, all) = list
    BY DEF RegionsMeanWhatPropsSay
  <2>1. /\ props.targetRegions \in Optional(RegionLists) /\ ConstructAccepts(props)
        /\ s.requestedRegions = OrElse(props.targetRegions, <<>>)
    BY SettingsFields DEF Props
  <2>2. CASE props.targetRegions = {}
    BY <2>1, <2>2, OrElseValue
  <2>3. ASSUME NEW list, props.targetRegions = {list}
        PROVE  /\ list # <<>> /\ s.requestedRegions = list
               /\ \A all \in RegionLists : selectTargetRegions(s.requestedRegions, all) = list
    <3>1. Len(list) # 0
      BY <2>1, <2>3 DEF ConstructAccepts, ConstructAcceptsRegions
    <3>2. s.requestedRegions = list
      BY <2>1, <2>3, OrElseValue
    <3> QED BY <3>1, <3>2, EmptyList DEF selectTargetRegions
  <2> QED BY <2>1, <2>2, <2>3, OptionalCases
<1> QED BY <1>1, ConfigInvariant, PTL

\* For all tags a resource may have: what a run finds is what its role may control.
THEOREM FoundIsControlled == ConfigSpec => []FoundMayBeControlled
<1>1. CInv => FoundMayBeControlled
  <2> SUFFICES ASSUME CInv, NEW s \in settings, NEW condition \in control, NEW tags \in Tags
               PROVE  IF props.tagValues # {}
                      THEN Found(s.filter, tags) <=> Permitted(condition, tags)
                      ELSE ~ Permitted(condition, tags)
    BY DEF FoundMayBeControlled
  <2>1. /\ condition.key = props.tagKey /\ condition.values = props.tagValues
        /\ props.tagKey \in TagKeys /\ props.tagValues \subseteq TagValues
    BY DEF CInv, ConfigTypeOK, DeployedInv, rdsResourceTagCondition, Props
  <2>2. s.filter.TagKey = props.tagKey /\ s.filter.TagValues = props.tagValues
    BY SettingsFields
  <2> QED BY <2>1, <2>2, UntaggedAssumption DEF Found, Permitted
<1> QED BY <1>1, ConfigInvariant, PTL

\* A run fetches the Slack secret just when its role may read it.
THEOREM SecretIsGranted == ConfigSpec => []SlackNeedsGrant
<1>1. CInv => SlackNeedsGrant
  <2> SUFFICES ASSUME CInv, NEW s \in settings
               PROVE  (s.fetchesSecret <=> granted) /\ (s.notifies => s.fetchesSecret)
    BY DEF SlackNeedsGrant
  <2>1. props \in Props /\ SlackAccepted(props.slack)
    BY SettingsFields DEF ConstructAccepts
  <2>2. s.fetchesSecret <=> granted
    BY <2>1, SettingsFields, SlackCases
  <2>3. s.notifies => s.fetchesSecret
    BY <2>1, SettingsFields, SlackCases DEF NotifyText
  <2> QED BY <2>2, <2>3
<1> QED BY <1>1, ConfigInvariant, PTL
===============================================================================
