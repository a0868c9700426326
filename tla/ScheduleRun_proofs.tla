--------------------------- MODULE ScheduleRun_proofs ---------------------------
(***************************************************************************)
(* Proofs about ScheduleRun, for any number of targets, of crashes and of  *)
(* places in the map, and for any wait settings.                           *)
(*                                                                         *)
(* Each invocation starts over, so what it may conclude from where it is   *)
(* must be in the log: a step has a result only when all the steps before  *)
(* it succeeded, and a child has begun only when all of them did.          *)
(***************************************************************************)
EXTENDS ScheduleRun, RunningScheduleWait_proofs, FiniteSetTheorems, TLAPS

\* The steps that come before a step, or before the map.
Earlier(place) ==
    CASE place = "fetch-slack-secret"           -> {}
      [] place = "get-target-regions"           -> {"fetch-slack-secret"}
      [] place = "get-resources"                -> {"fetch-slack-secret", "get-target-regions"}
      [] place = "deduplicate-target-resources" ->
            {"fetch-slack-secret", "get-target-regions", "get-resources"}
      [] place = "post-slack-messages"          -> Steps \ {"post-slack-messages"}
      [] place = "map"                          -> Steps

\* Slack off has no secret to fetch, and only Slack on has a message to post.
Required(step) ==
    CASE step = "fetch-slack-secret"  -> config.slack # "off"
      [] step = "post-slack-messages" -> config.slack = "on"
      [] OTHER                        -> TRUE

\* All that comes before a place is done.
Reached(place) ==
    /\ config.valid
    /\ place \in Steps => Required(place)
    /\ \A step \in Earlier(place) : Required(step) => log[step] = "done"
    /\ place \in {"post-slack-messages", "map"} => targets > 0

\* The run cannot succeed any more.
Doomed ==
    \/ ~ config.valid
    \/ \E step \in Steps : log[step] = "failed"
    \/ /\ Reached("map")
       /\ \A t \in TargetIndices : child[t] \in Settled
       /\ \E t \in TargetIndices : child[t] = "failed"

OrderInv ==
    /\ \A step \in Steps : log[step] # "none" => Reached(step)
    /\ pc \in Steps \cup {"map"} => Reached(pc)
    /\ log["deduplicate-target-resources"] # "done" => targets = 0
    /\ \A t \in Indices : child[t] # "queued" => Reached("map") /\ t <= targets

ThreadInv ==
    /\ parentTs <= parents
    /\ log["post-slack-messages"] = "done" <=> parentTs # 0
    /\ log["post-slack-messages"] = "none" => parents < MaxParents
    /\ \A t \in Indices :
          /\ child[t] = "posting" => config.slack = "on"
          /\ thread[t] # 0 => thread[t] = parentTs
          /\ child[t] = "ok" /\ config.slack = "on" => thread[t] = parentTs

EndInv ==
    /\ pc = "ended" <=> outcome # "running"
    /\ logged => Doomed
    /\ pc = "rethrow" => logged
    /\ outcome = "failed" => logged
    /\ outcome = "succeeded" =>
          /\ ~ Doomed
          /\ Known
          /\ \A t \in TargetIndices : child[t] \in {"ok", "skipped"}

RInv == RunTypeOK /\ OrderInv /\ ThreadInv /\ EndInv

-------------------------------------------------------------------------------
(* Vocabulary. *)

LEMMA StepNames ==
    /\ "map" \notin Steps /\ "validate" \notin Steps /\ "rethrow" \notin Steps /\ "ended" \notin Steps
    /\ \A place \in Steps \cup {"map"} : Earlier(place) \subseteq Steps /\ place \notin Earlier(place)
BY DEF Steps, Earlier

\* The five steps are taken in one order.
LEMMA EarlierOrder ==
    /\ \A a, b \in Steps : a # b => a \in Earlier(b) \/ b \in Earlier(a)
    /\ \A a, b \in Steps : a \in Earlier(b) => b \notin Earlier(a)
BY DEF Steps, Earlier

\* Where an invocation goes after a step has succeeded.
LEMMA AfterCases ==
    ASSUME NEW step \in Steps, NEW n, After(step, n)
    PROVE  \/ /\ step = "fetch-slack-secret"
              /\ pc' = "get-target-regions" /\ UNCHANGED <<outcome, logged>>
           \/ /\ step = "get-target-regions"
              /\ pc' = "get-resources" /\ UNCHANGED <<outcome, logged>>
           \/ /\ step = "get-resources"
              /\ pc' = "deduplicate-target-resources" /\ UNCHANGED <<outcome, logged>>
           \/ /\ step = "deduplicate-target-resources" /\ n = 0
              /\ pc' = "ended" /\ outcome' = "succeeded" /\ logged' = logged
           \/ /\ step = "deduplicate-target-resources" /\ n # 0 /\ config.slack = "on"
              /\ pc' = "post-slack-messages" /\ UNCHANGED <<outcome, logged>>
           \/ /\ step = "deduplicate-target-resources" /\ n # 0 /\ config.slack # "on"
              /\ pc' = "map" /\ UNCHANGED <<outcome, logged>>
           \/ /\ step = "post-slack-messages"
              /\ pc' = "map" /\ UNCHANGED <<outcome, logged>>
BY DEF After, Steps, GoTo, ReturnFromRun

\* Being somewhere, or having a child begun, excludes a failed step.
LEMMA ReachedMap ==
    ASSUME RInv, Reached("map")
    PROVE  \A step \in Steps : log[step] # "failed"
<1> SUFFICES ASSUME NEW step \in Steps, log[step] = "failed" PROVE FALSE
  OBVIOUS
<1>1. Required(step)
  BY DEF RInv, OrderInv, Reached
<1>2. log[step] = "done"
  BY <1>1 DEF Reached, Earlier
<1> QED BY <1>2

LEMMA ReachedStep ==
    ASSUME RInv, NEW place \in Steps, Reached(place), log[place] = "none"
    PROVE  /\ \A step \in Steps : log[step] # "failed"
           /\ \A step \in Steps : place \in Earlier(step) => log[step] = "none"
<1>1. ASSUME NEW step \in Steps, place \in Earlier(step) PROVE log[step] = "none"
  BY <1>1 DEF RInv, OrderInv, Reached
<1>2. ASSUME NEW step \in Steps, step \in Earlier(place), log[step] = "failed" PROVE FALSE
  BY <1>2 DEF RInv, OrderInv, Reached
<1>3. ASSUME NEW step \in Steps PROVE log[step] # "failed"
  BY <1>1, <1>2, EarlierOrder
<1> QED BY <1>1, <1>3

\* A doomed run is at no child that is open.
LEMMA DoomedIdle ==
    ASSUME RInv, Doomed, pc = "map", NEW t \in TargetIndices
    PROVE  child[t] \in Settled
BY ReachedMap DEF Doomed, RInv, OrderInv, Reached

\* What was reached depends only on the configuration and on the log.
LEMMA ReachedFrame ==
    ASSUME UNCHANGED <<config, log, targets>>
    PROVE  \A place : Reached(place)' <=> Reached(place)
BY DEF Reached, Required, Earlier, Steps

\* While a step is still to be taken, no child has begun.
LEMMA NoneBegun ==
    ASSUME RInv, NEW place \in Steps, Reached(place), log[place] = "none"
    PROVE  /\ ~ Reached("map")
           /\ \A t \in Indices : child[t] = "queued"
           /\ ~ Doomed
<1>1. ~ Reached("map")
  BY DEF Reached, Earlier
<1> QED BY <1>1, ReachedStep DEF RInv, OrderInv, Doomed, Reached

\* A child that is not settled excludes every failure of the run.
LEMMA OpenChild ==
    ASSUME RInv, pc = "map", NEW t \in Indices, child[t] \notin Settled,
           t \in TargetIndices \/ child[t] # "queued"
    PROVE  ~ logged /\ outcome = "running" /\ Reached("map") /\ t \in TargetIndices /\ Known
<1>1. t \in TargetIndices
  BY DEF RInv, OrderInv, TargetIndices
<1>2. Reached("map")
  BY DEF RInv, OrderInv
<1>3. ~ Doomed
  BY <1>1, DoomedIdle
<1>4. Known
  BY <1>2 DEF Reached, Earlier, Required, Steps, Known
<1> QED BY <1>1, <1>2, <1>3, <1>4 DEF RInv, EndInv

\* Actions that change nothing recorded: only the place of the handler is left
\* to look at.
LEMMA ControlFrame ==
    ASSUME RInv, UNCHANGED <<config, stepVars, child, thread>>
    PROVE  /\ Doomed' <=> Doomed
           /\ Known' <=> Known
           /\ TargetIndices' = TargetIndices
           /\ (pc' \in Steps \cup {"map"} => Reached(pc')) => OrderInv'
           /\ ThreadInv'
<1>1. UNCHANGED <<config, log, targets, parents, parentTs, child, thread>>
  BY DEF stepVars
<1>2. \A place : Reached(place)' <=> Reached(place)
  BY <1>1, ReachedFrame
<1>3. TargetIndices' = TargetIndices
  BY <1>1 DEF TargetIndices
<1>4. Doomed' <=> Doomed
  BY <1>1, <1>2, <1>3 DEF Doomed
<1>5. ASSUME pc' \in Steps \cup {"map"} => Reached(pc') PROVE OrderInv'
  BY <1>1, <1>2, <1>5 DEF RInv, OrderInv
<1>6. ThreadInv'
  BY <1>1 DEF RInv, ThreadInv
<1>7. Known' <=> Known
  BY <1>1 DEF Known
<1> QED BY <1>3, <1>4, <1>5, <1>6, <1>7

-------------------------------------------------------------------------------
(* The invariant is kept: one lemma per action of the handler. *)

\* A step of the handler, lost or not, lets some time pass within the limit.
LEMMA StepTime ==
    ASSUME RInv, NEW seconds \in Nat, Takes(seconds)
    PROVE  now' \in Nat /\ now' = now + seconds /\ now <= now' /\ now' <= ExecutionTimeout
BY DEF RInv, RunTypeOK, Takes

LEMMA RunInitInv == RunInit => RInv
<1> SUFFICES ASSUME RunInit PROVE RInv
  OBVIOUS
<1>1. RunTypeOK
  <2>1. child \in [Indices -> {"queued", "waiting"} \cup Calling \cup Settled]
    BY DEF RunInit
  <2>2. log \in [Steps -> {"none", "done", "failed"}]
    BY DEF RunInit
  <2>3. /\ spent \in [Indices -> Nat] /\ wake \in [Indices -> Nat]
        /\ thread \in [Indices -> 0 .. MaxParents]
    BY BoundsAssumption DEF RunInit
  <2>4. /\ targets \in 0 .. MaxTargets /\ parents \in 0 .. MaxParents /\ parentTs \in 0 .. MaxParents
        /\ crashes \in 0 .. MaxCrashes /\ now \in Nat
    BY BoundsAssumption DEF RunInit
  <2>5. logged \in BOOLEAN /\ outcome \in {"running", "succeeded", "failed", "timed-out"}
    BY DEF RunInit
  <2> QED BY <2>1, <2>2, <2>3, <2>4, <2>5 DEF RunInit, RunTypeOK
<1>2. \A step \in Steps : log[step] = "none"
  BY DEF RunInit
<1>3. OrderInv
  BY <1>2, StepNames DEF RunInit, OrderInv, Steps
<1>4. ThreadInv
  BY <1>2, BoundsAssumption DEF RunInit, ThreadInv, Steps
<1>5. EndInv
  BY DEF RunInit, EndInv
<1> QED BY <1>1, <1>3, <1>4, <1>5 DEF RInv

LEMMA ValidateInv == RInv /\ Validate => RInv'
<1> SUFFICES ASSUME RInv, Validate PROVE RInv'
  OBVIOUS
<1>1. UNCHANGED <<config, stepVars, childVars>> /\ UNCHANGED <<config, log, targets, parents,
         parentTs, child, spent, wake, thread, now, crashes, outcome>>
  BY DEF Validate, stepVars, childVars, FailRun, GoTo
<1>2. \/ ~ config.valid /\ logged' /\ logged' \in BOOLEAN /\ pc' = "rethrow"
      \/ /\ config.valid /\ logged' = logged
         /\ \/ pc' = "get-target-regions" /\ config.slack = "off"
            \/ pc' = "fetch-slack-secret" /\ config.slack # "off"
  BY DEF Validate, FailRun, GoTo
<1>3. pc' \in Steps \cup {"map"} => Reached(pc')
  BY <1>2, StepNames DEF Reached, Earlier, Required
<1>4. RunTypeOK'
  BY <1>1, <1>2 DEF RInv, RunTypeOK, Steps
<1>5. EndInv'
  BY <1>1, <1>2, ControlFrame DEF RInv, EndInv, Doomed, Validate
<1> QED BY <1>1, <1>3, <1>4, <1>5, ControlFrame DEF RInv

LEMMA ReplayStepInv == RInv /\ ReplayStep => RInv'
<1> SUFFICES ASSUME RInv, ReplayStep PROVE RInv'
  OBVIOUS
<1>1. UNCHANGED <<config, stepVars, childVars>> /\ UNCHANGED <<config, log, targets, parents,
         parentTs, child, spent, wake, thread, now, crashes>>
  BY DEF ReplayStep, stepVars, childVars
<1>2. pc \in Steps /\ Reached(pc) /\ pc # "ended" /\ outcome = "running" /\ targets \in Nat
  BY StepNames, BoundsAssumption DEF ReplayStep, RInv, OrderInv, EndInv, RunTypeOK
<1>3. CASE log[pc] = "failed"
  <2>1. pc' = "rethrow" /\ logged' = TRUE /\ outcome' = outcome
    BY <1>3 DEF ReplayStep, FailRun
  <2>2. Doomed
    BY <1>2, <1>3 DEF Doomed
  <2>3. RunTypeOK'
    BY <1>1, <2>1 DEF RInv, RunTypeOK
  <2>4. EndInv'
    BY <1>1, <1>2, <2>1, <2>2, ControlFrame DEF EndInv
  <2> QED BY <1>1, <2>1, <2>3, <2>4, StepNames, ControlFrame DEF RInv
<1>4. CASE log[pc] # "failed"
  <2>1. log[pc] = "done" /\ After(pc, targets)
    BY <1>2, <1>4 DEF ReplayStep, RInv, RunTypeOK
  <2>2. CASE pc = "deduplicate-target-resources" /\ targets = 0
    <3>1. pc' = "ended" /\ outcome' = "succeeded" /\ logged' = logged
      BY <2>1, <2>2, AfterCases, <1>2
    <3>2. \A step \in Steps : log[step] # "failed"
      <4> SUFFICES ASSUME NEW step \in Steps, log[step] = "failed" PROVE FALSE
        OBVIOUS
      <4>1. Reached(step)
        BY DEF RInv, OrderInv
      <4>2. step # "post-slack-messages"
        BY <2>2, <4>1 DEF Reached
      <4> QED BY <1>2, <2>1, <2>2, <4>1, <4>2 DEF Reached, Earlier, Steps
    <3>3. ~ Doomed /\ Known /\ TargetIndices = {}
      BY <1>2, <2>1, <2>2, <3>2 DEF Doomed, Known, TargetIndices, Reached, Indices
    <3>4. RunTypeOK'
      BY <1>1, <3>1 DEF RInv, RunTypeOK
    <3>5. EndInv'
      BY <1>1, <3>1, <3>3, ControlFrame DEF RInv, EndInv
    <3> QED BY <1>1, <3>1, <3>4, <3>5, StepNames, ControlFrame DEF RInv
  <2>3. CASE ~ (pc = "deduplicate-target-resources" /\ targets = 0)
    <3>1. pc' \in Steps \cup {"map"} /\ UNCHANGED <<outcome, logged>> /\ Reached(pc')
      BY <1>2, <2>1, <2>3, AfterCases DEF Reached, Required, Earlier, Steps
    <3>2. RunTypeOK'
      BY <1>1, <3>1 DEF RInv, RunTypeOK
    <3>3. EndInv'
      BY <1>1, <1>2, <3>1, StepNames, ControlFrame DEF RInv, EndInv
    <3> QED BY <1>1, <3>1, <3>2, <3>3, ControlFrame DEF RInv
  <2> QED BY <2>2, <2>3
<1> QED BY <1>3, <1>4

LEMMA StepFailsInv == RInv /\ StepFails => RInv'
<1> SUFFICES ASSUME RInv, StepFails PROVE RInv'
  OBVIOUS
<1>1. /\ pc \in Steps /\ log[pc] = "none" /\ log' = [log EXCEPT ![pc] = "failed"]
      /\ logged' = TRUE /\ pc' = "rethrow" /\ outcome' = outcome /\ now' \in Nat
      /\ UNCHANGED <<config, targets, parents, parentTs, child, spent, wake, thread, crashes>>
  BY StepTime, LimitsAssumption DEF StepFails, FailRun, childVars
<1>2. Reached(pc) /\ pc # "ended" /\ log \in [Steps -> {"none", "done", "failed"}]
  BY <1>1, StepNames DEF RInv, OrderInv, RunTypeOK
<1>3. /\ ~ Reached("map") /\ \A t \in Indices : child[t] = "queued"
  BY <1>1, <1>2, NoneBegun
<1>4. RunTypeOK'
  BY <1>1 DEF RInv, RunTypeOK
<1>5. ASSUME NEW step \in Steps, Reached(step) PROVE Reached(step)'
  BY <1>1, <1>2, <1>5, StepNames DEF Reached, Required, Earlier, Steps
<1>6. OrderInv'
  <2>1. \A step \in Steps : log'[step] # "none" => Reached(step)'
    BY <1>1, <1>2, <1>5 DEF RInv, OrderInv
  <2>2. log'["deduplicate-target-resources"] # "done" => targets' = 0
    BY <1>1, <1>2 DEF RInv, OrderInv, Steps
  <2> QED BY <1>1, <1>3, <2>1, <2>2, StepNames DEF OrderInv
<1>7. ThreadInv'
  BY <1>1, <1>2 DEF RInv, ThreadInv, Steps
<1>8. EndInv'
  <2>1. Doomed'
    BY <1>1, <1>2 DEF Doomed
  <2> QED BY <1>1, <1>2, <2>1 DEF RInv, EndInv
<1> QED BY <1>4, <1>6, <1>7, <1>8 DEF RInv

\* A step succeeds only in a run that nothing has failed in yet.
LEMMA StepSucceedsInv == RInv /\ StepSucceeds => RInv'
<1> SUFFICES ASSUME RInv, StepSucceeds PROVE RInv'
  OBVIOUS
<1>1. /\ pc \in Steps /\ log[pc] = "none" /\ log' = [log EXCEPT ![pc] = "done"]
      /\ UNCHANGED <<config, child, spent, wake, thread, crashes>> /\ now' \in Nat
      /\ After(pc, targets')
  BY StepTime, LimitsAssumption DEF StepSucceeds, childVars
<1>2. /\ Reached(pc) /\ pc # "ended" /\ outcome = "running"
      /\ log \in [Steps -> {"none", "done", "failed"}]
  BY <1>1, StepNames DEF RInv, OrderInv, RunTypeOK, EndInv
<1>3. /\ ~ Reached("map") /\ \A t \in Indices : child[t] = "queued"
      /\ ~ Doomed /\ ~ logged
  BY <1>1, <1>2, NoneBegun DEF RInv, EndInv
<1>4. \/ pc = "deduplicate-target-resources" /\ targets' \in 0 .. MaxTargets
      \/ pc # "deduplicate-target-resources" /\ targets' = targets
  BY DEF StepSucceeds
<1>5. \/ pc = "post-slack-messages" /\ parents' = parents + 1 /\ parentTs' = parents + 1
      \/ pc # "post-slack-messages" /\ parents' = parents /\ parentTs' = parentTs
  BY DEF StepSucceeds
<1>6. \/ /\ pc = "deduplicate-target-resources" /\ targets' = 0
         /\ pc' = "ended" /\ outcome' = "succeeded" /\ logged' = logged
      \/ /\ ~ (pc = "deduplicate-target-resources" /\ targets' = 0)
         /\ pc' \in Steps \cup {"map"} /\ UNCHANGED <<outcome, logged>>
  BY <1>1, AfterCases DEF Steps
<1>7. ASSUME NEW step \in Steps, Reached(step) PROVE Reached(step)'
  <2>1. pc \notin Earlier(step) \/ step = pc
    BY <1>1, <1>2, <1>7 DEF Reached
  <2>2. targets' = targets \/ step # "post-slack-messages"
    BY <1>1, <1>2, <1>4, <2>1 DEF Earlier, Steps
  <2> QED BY <1>1, <1>2, <1>7, <2>1, <2>2, StepNames DEF Reached, Required, Earlier, Steps
<1>8. RunTypeOK'
  <2>1. targets' \in 0 .. MaxTargets
    BY <1>4 DEF RInv, RunTypeOK
  <2>2. parents' \in 0 .. MaxParents /\ parentTs' \in 0 .. MaxParents
    BY <1>1, <1>5, BoundsAssumption DEF RInv, RunTypeOK, ThreadInv
  <2>3. log' \in [Steps -> {"none", "done", "failed"}]
    BY <1>1, <1>2
  <2>4. /\ pc' \in {"validate", "map", "rethrow", "ended"} \cup Steps
        /\ outcome' \in {"running", "succeeded", "failed", "timed-out"}
        /\ logged' \in BOOLEAN
    BY <1>6 DEF RInv, RunTypeOK
  <2> QED BY <1>1, <2>1, <2>2, <2>3, <2>4 DEF RInv, RunTypeOK
<1>9. (pc \in Steps \cup {"map"} => Reached(pc))'
  <2> SUFFICES ASSUME NEW from, from = pc, NEW place, place = pc',
                      place \in Steps \cup {"map"}
               PROVE  Reached(place)'
    BY DEF Reached, Required, Earlier, Steps
  <2>1. Reached(from)' /\ log'[from] = "done" /\ targets' \in Nat
    BY <1>1, <1>2, <1>7, <1>8, BoundsAssumption DEF RunTypeOK
  <2>2. \/ from = "fetch-slack-secret" /\ place = "get-target-regions"
        \/ from = "get-target-regions" /\ place = "get-resources"
        \/ from = "get-resources" /\ place = "deduplicate-target-resources"
        \/ /\ from = "deduplicate-target-resources" /\ targets' # 0
           /\ \/ config.slack = "on" /\ place = "post-slack-messages"
              \/ config.slack # "on" /\ place = "map"
        \/ from = "post-slack-messages" /\ place = "map"
    BY <1>1, <1>6, AfterCases, StepNames DEF Steps
  <2> QED BY <1>1, <2>1, <2>2 DEF Reached, Required, Earlier, Steps
<1>10. OrderInv'
  <2>1. \A step \in Steps : log'[step] # "none" => Reached(step)'
    BY <1>1, <1>2, <1>7 DEF RInv, OrderInv
  <2>2. log'["deduplicate-target-resources"] # "done" => targets' = 0
    BY <1>1, <1>2, <1>4 DEF RInv, OrderInv, Steps
  <2> QED BY <1>1, <1>3, <1>9, <2>1, <2>2 DEF OrderInv
<1>11. ThreadInv'
  <2>1. /\ parents \in Nat /\ parentTs \in Nat
    BY BoundsAssumption DEF RInv, RunTypeOK
  <2>2. parentTs' <= parents'
    BY <1>5, <2>1 DEF RInv, ThreadInv
  <2>3. log'["post-slack-messages"] = "done" <=> parentTs' # 0
    BY <1>1, <1>2, <1>5, <2>1 DEF RInv, ThreadInv, Steps
  <2>4. log'["post-slack-messages"] = "none" => parents' < MaxParents
    BY <1>1, <1>2, <1>5 DEF RInv, ThreadInv, Steps
  <2>5. \A t \in Indices : thread'[t] # 0 => thread'[t] = parentTs'
    BY <1>1, <1>5 DEF RInv, ThreadInv
  <2> QED BY <1>1, <1>3, <2>2, <2>3, <2>4, <2>5 DEF ThreadInv
<1>12. EndInv'
  <2>1. CASE pc = "deduplicate-target-resources" /\ targets' = 0
    <3>1. ~ Reached("map")' /\ config'.valid
      BY <1>1, <1>2, <2>1 DEF Reached
    <3>2. \A step \in Steps : log'[step] # "failed"
      BY <1>1, <1>2, <1>3 DEF Doomed
    <3>3. Known'
      BY <1>1, <1>2, <2>1 DEF Known
    <3>4. TargetIndices' = {}
      BY <2>1 DEF TargetIndices, Indices
    <3>5. ~ Doomed'
      BY <3>1, <3>2 DEF Doomed
    <3> QED BY <1>3, <1>6, <2>1, <3>3, <3>4, <3>5 DEF EndInv
  <2>2. CASE ~ (pc = "deduplicate-target-resources" /\ targets' = 0)
    BY <1>2, <1>3, <1>6, <2>2, StepNames DEF EndInv
  <2> QED BY <2>1, <2>2
<1> QED BY <1>8, <1>10, <1>11, <1>12 DEF RInv

LEMMA LoseParentInv == RInv /\ LoseParent => RInv'
<1> SUFFICES ASSUME RInv, LoseParent PROVE RInv'
  OBVIOUS
<1>1. /\ UNCHANGED <<config, log, targets, parentTs, child, spent, wake, thread, pc,
                     now, outcome, logged, crashes>>
      /\ parents' = parents + 1 /\ parents + 1 < MaxParents
  BY DEF LoseParent, childVars
<1>2. parents \in Nat /\ parentTs \in Nat /\ parents' \in 0 .. MaxParents
  BY <1>1, BoundsAssumption DEF RInv, RunTypeOK
<1>3. \A place : Reached(place)' <=> Reached(place)
  BY <1>1, ReachedFrame
<1>4. RunTypeOK'
  BY <1>1, <1>2 DEF RInv, RunTypeOK
<1>5. OrderInv'
  BY <1>1, <1>3 DEF RInv, OrderInv
<1>6. ThreadInv'
  BY <1>1, <1>2 DEF RInv, ThreadInv
<1>7. EndInv'
  <2>1. (Doomed' <=> Doomed) /\ (Known' <=> Known) /\ TargetIndices' = TargetIndices
    BY <1>1, <1>3 DEF Doomed, Known, TargetIndices
  <2> QED BY <1>1, <2>1 DEF RInv, EndInv
<1> QED BY <1>4, <1>5, <1>6, <1>7 DEF RInv

LEMMA FinalizeInv == RInv /\ Finalize => RInv'
<1> SUFFICES ASSUME RInv, Finalize PROVE RInv'
  OBVIOUS
<1>1. UNCHANGED <<config, stepVars, childVars>> /\ UNCHANGED <<config, log, targets, parents,
         parentTs, child, spent, wake, thread, now, crashes>>
  BY DEF Finalize, stepVars, childVars
<1>2. pc = "map" /\ Reached("map") /\ outcome = "running"
  BY DEF Finalize, RInv, OrderInv, EndInv
<1>3. CASE \E t \in TargetIndices : child[t] = "failed"
  <2>1. Doomed
    BY <1>2, <1>3 DEF Finalize, Doomed
  <2>2. logged' = TRUE /\ pc' = "rethrow" /\ outcome' = outcome
    BY <1>3 DEF Finalize, FailRun
  <2>3. RunTypeOK'
    BY <1>1, <2>2 DEF RInv, RunTypeOK
  <2>4. EndInv'
    BY <1>1, <1>2, <2>1, <2>2, ControlFrame DEF EndInv
  <2> QED BY <1>1, <2>2, <2>3, <2>4, StepNames, ControlFrame DEF RInv
<1>4. CASE ~ \E t \in TargetIndices : child[t] = "failed"
  <2>1. pc' = "ended" /\ outcome' = "succeeded" /\ logged' = logged
    BY <1>4 DEF Finalize, ReturnFromRun
  <2>2. ~ Doomed
    BY <1>2, <1>4, ReachedMap DEF Doomed, Reached
  <2>3. Known
    BY <1>2 DEF Reached, Earlier, Required, Steps, Known
  <2>4. \A t \in TargetIndices : child[t] \in {"ok", "skipped"}
    BY <1>4 DEF Finalize, Settled
  <2>5. RunTypeOK'
    BY <1>1, <2>1 DEF RInv, RunTypeOK
  <2>6. EndInv'
    BY <1>1, <2>1, <2>2, <2>3, <2>4, ControlFrame DEF RInv, EndInv
  <2> QED BY <1>1, <2>1, <2>5, <2>6, StepNames, ControlFrame DEF RInv
<1> QED BY <1>3, <1>4

\* The end of the handler, of the invocation and of the execution.
LEMMA StopInv == RInv /\ (Rethrow \/ TimeOut \/ CrashRun \/ Advance \/ UNCHANGED runVars) => RInv'
<1> SUFFICES ASSUME RInv, Rethrow \/ TimeOut \/ CrashRun \/ Advance \/ UNCHANGED runVars
             PROVE  RInv'
  OBVIOUS
<1>1. UNCHANGED <<config, stepVars, child, thread>> /\ UNCHANGED <<config, log, targets, parents,
         parentTs, child, spent, thread, logged>>
  BY DEF Rethrow, TimeOut, CrashRun, Advance, runVars, stepVars, childVars
<1>2. \/ pc = "rethrow" /\ outcome' = "failed" /\ pc' = "ended"
      \/ outcome = "running" /\ outcome' = "timed-out" /\ pc' = "ended"
      \/ outcome = "running" /\ outcome' = "running" /\ pc' = "validate"
      \/ UNCHANGED <<pc, outcome>>
  BY DEF Rethrow, TimeOut, CrashRun, Advance, Idle, runVars, RInv, EndInv
<1>3. now' \in Nat
  <2>1. CASE Advance
    BY <2>1, LimitsAssumption DEF Advance, RInv, RunTypeOK, Active
  <2>2. CASE CrashRun
    <3>1. CASE AtStep
      <4>1. PICK seconds \in StepSeconds : \E lost \in 0 .. seconds : Takes(lost)
        BY <2>2, <3>1 DEF CrashRun
      <4>2. \A lost \in 0 .. seconds : lost \in Nat
        BY LimitsAssumption
      <4> QED BY <4>1, <4>2, StepTime
    <3> QED BY <2>2, <3>1 DEF CrashRun, RInv, RunTypeOK
  <2>3. CASE TimeOut
    BY <2>3, LimitsAssumption DEF TimeOut
  <2> QED BY <2>1, <2>2, <2>3 DEF Rethrow, runVars, RInv, RunTypeOK
<1>4. crashes' \in 0 .. MaxCrashes
  BY BoundsAssumption DEF Rethrow, TimeOut, CrashRun, Advance, runVars, RInv, RunTypeOK
<1>5. wake' \in [Indices -> Nat]
  <2>1. CASE CrashRun
    <3>1. PICK again \in [Indices -> CallSeconds] :
             wake' = [t \in Indices |->
                         IF child[t] \in Calling THEN now + again[t] ELSE wake[t]]
      BY <2>1 DEF CrashRun
    <3>2. /\ now \in Nat /\ \A t \in Indices : wake[t] \in Nat
          /\ \A t \in Indices : again[t] \in CallSeconds
          /\ \A s \in CallSeconds : s \in Nat
      BY LimitsAssumption DEF RInv, RunTypeOK
    <3> QED BY <3>1, <3>2
  <2> QED BY <2>1 DEF Rethrow, TimeOut, Advance, runVars, childVars, RInv, RunTypeOK
<1>6. RunTypeOK'
  BY <1>1, <1>2, <1>3, <1>4, <1>5 DEF RInv, RunTypeOK
<1>7. pc' \in Steps \cup {"map"} => Reached(pc')
  BY <1>2, StepNames DEF RInv, OrderInv
<1>8. EndInv'
  BY <1>1, <1>2, ControlFrame DEF RInv, EndInv
<1> QED BY <1>1, <1>6, <1>7, <1>8, ControlFrame DEF RInv

-------------------------------------------------------------------------------
(* The invariant is kept: the child contexts. *)

\* The states a child may be in after it was in another.
ChildStates == {"queued", "waiting"} \cup Calling \cup Settled

\* One open child changes, and nothing is recorded by the handler itself.
LEMMA ChildFrame ==
    ASSUME RInv, pc = "map", NEW t \in Indices, child[t] \notin Settled,
           t \in TargetIndices \/ child[t] # "queued",
           NEW state \in ChildStates, child' = [child EXCEPT ![t] = state],
           UNCHANGED <<config, stepVars, pc, now, outcome, logged, crashes>>,
           spent' \in [Indices -> Nat], wake' \in [Indices -> Nat],
           \/ /\ UNCHANGED thread
              /\ state = "ok" => config.slack # "on"
           \/ thread' = [thread EXCEPT ![t] = parentTs],
           state = "posting" => config.slack = "on"
    PROVE  RInv'
<1>1. /\ UNCHANGED <<config, log, targets, parents, parentTs, pc, now, outcome, logged, crashes>>
      /\ \A place : Reached(place)' <=> Reached(place)
  BY ReachedFrame DEF stepVars
<1>2. ~ logged /\ outcome = "running" /\ Reached("map") /\ t \in TargetIndices
  BY OpenChild
<1>3. /\ child \in [Indices -> ChildStates] /\ thread \in [Indices -> 0 .. MaxParents]
      /\ parentTs \in 0 .. MaxParents
  BY DEF RInv, RunTypeOK, ChildStates
<1>4. child' \in [Indices -> ChildStates]
  BY <1>3
<1>5. thread' \in [Indices -> 0 .. MaxParents]
  BY <1>3
<1>6. RunTypeOK'
  BY <1>1, <1>4, <1>5 DEF RInv, RunTypeOK, ChildStates
<1>7. OrderInv'
  BY <1>1, <1>2, <1>3 DEF RInv, OrderInv, TargetIndices
<1>8. ThreadInv'
  BY <1>1, <1>3 DEF RInv, ThreadInv
<1>9. EndInv'
  BY <1>1, <1>2 DEF EndInv
<1> QED BY <1>6, <1>7, <1>8, <1>9 DEF RInv

\* What one turn of a check makes of the child.
LEMMA CheckCases ==
    ASSUME RInv, NEW t \in Indices, Check(t)
    PROVE  \E state \in {"skipped", "posting", "noticing", "ok", "failed", "waiting"},
              moment \in Nat :
             /\ Becomes(t, state, moment)
             /\ state = "waiting" => spent[t] + Interval <= Max /\ moment = now + Interval
             /\ state \in Calling => \E seconds \in CallSeconds : moment = now + seconds
             /\ state = "ok" => config.slack # "on"
             /\ state \in {"posting", "noticing"} => config.slack = "on"
<1>1. PICK current \in Observed, seconds \in CallSeconds :
        LET step == nextWaitStep(Mode, current, spent[t], Interval, Max) IN
        \/ IF step.value = "skipped" THEN Becomes(t, "skipped", 0)
           ELSE IF config.slack = "on" THEN Becomes(t, "posting", now + seconds)
           ELSE Becomes(t, "ok", 0)
        \/ IF Notified(step.value) THEN Becomes(t, "noticing", now + seconds)
           ELSE Becomes(t, "failed", 0)
        \/ /\ step.kind = "pause"
           /\ Becomes(t, "waiting", now + Interval)
  BY DEF Check
<1>2. /\ spent[t] \in Int /\ Interval \in Nat /\ Max \in Int /\ now \in Nat
      /\ seconds \in Nat /\ now + seconds \in Nat /\ now + Interval \in Nat
  BY WaitAssumption, LimitsAssumption DEF RInv, RunTypeOK, resolveResourceWait
<1>3. nextWaitStep(Mode, current, spent[t], Interval, Max).kind = "pause"
        => spent[t] + Interval <= Max
  BY <1>2, ModeAssumption, DecisionCases DEF Finish, Throw, Pause
<1>4. \/ Becomes(t, "skipped", 0) \/ Becomes(t, "failed", 0)
      \/ config.slack # "on" /\ Becomes(t, "ok", 0)
      \/ config.slack = "on" /\ Becomes(t, "posting", now + seconds)
      \/ config.slack = "on" /\ Becomes(t, "noticing", now + seconds)
      \/ spent[t] + Interval <= Max /\ Becomes(t, "waiting", now + Interval)
  BY <1>1, <1>3 DEF Notified
<1> QED BY <1>2, <1>4 DEF Calling

\* What each action of a child context does to the child.
LEMMA ChildStepCases ==
    ASSUME RInv, NEW t \in Indices, ChildTurn(t)
    PROVE  /\ pc = "map" /\ child[t] \notin Settled
           /\ t \in TargetIndices \/ child[t] # "queued"
           /\ UNCHANGED <<config, stepVars, pc, now, outcome, logged, crashes>>
           /\ spent' \in [Indices -> Nat] /\ wake' \in [Indices -> Nat]
           /\ \A u \in Indices : spent[u] <= spent'[u]
           /\ \A u \in Indices : u # t => UNCHANGED <<child[u], spent[u], wake[u]>>
           /\ \E state \in ChildStates :
                 /\ child' = [child EXCEPT ![t] = state]
                 /\ \/ child[t] = "queued" /\ state = "checking"
                    \/ child[t] # "queued" /\ state # "queued"
                 /\ \/ UNCHANGED thread /\ (state = "ok" => config.slack # "on")
                    \/ thread' = [thread EXCEPT ![t] = parentTs]
                 /\ state = "posting" => config.slack = "on"
<1>1. /\ child \in [Indices -> ChildStates]
      /\ spent \in [Indices -> Nat] /\ wake \in [Indices -> Nat] /\ now \in Nat
      /\ Interval \in Nat /\ CallSeconds \subseteq Nat
      /\ \A seconds \in CallSeconds : now + seconds \in Nat
  BY WaitAssumption, LimitsAssumption DEF RInv, RunTypeOK, ChildStates, resolveResourceWait
<1>2. ASSUME NEW state, NEW moment \in Nat, Becomes(t, state, moment)
      PROVE  /\ wake' \in [Indices -> Nat]
             /\ child' = [child EXCEPT ![t] = state]
             /\ \A u \in Indices : u # t => UNCHANGED <<child[u], wake[u]>>
  BY <1>1, <1>2 DEF Becomes
<1>3. CASE StartChild(t)
  <2>1. PICK seconds \in CallSeconds : Becomes(t, "checking", now + seconds)
    BY <1>3 DEF StartChild
  <2> QED BY <1>1, <1>2, <1>3, <2>1 DEF StartChild, CanStart, ChildStates, Calling, Settled
<1>4. CASE Check(t)
  <2>1. PICK state \in {"skipped", "posting", "noticing", "ok", "failed", "waiting"},
             moment \in Nat :
           /\ Becomes(t, state, moment)
           /\ state = "ok" => config.slack # "on"
           /\ state = "posting" => config.slack = "on"
    BY <1>4, CheckCases
  <2>2. /\ pc = "map" /\ child[t] = "checking"
        /\ UNCHANGED <<config, stepVars, spent, thread, pc, now, outcome, logged, crashes>>
    BY <1>4 DEF Check, Over
  <2> QED BY <1>1, <1>2, <2>1, <2>2 DEF ChildStates, Calling, Settled
<1>5. CASE CheckFails(t)
  BY <1>1, <1>2, <1>5 DEF CheckFails, Over, ChildStates, Calling, Settled
<1>6. CASE Resume(t)
  <2>1. PICK seconds \in CallSeconds : Becomes(t, "checking", now + seconds)
    BY <1>6 DEF Resume
  <2>2. /\ spent' \in [Indices -> Nat] /\ \A u \in Indices : spent[u] <= spent'[u]
        /\ \A u \in Indices : u # t => spent'[u] = spent[u]
    BY <1>1, <1>6 DEF Resume
  <2> QED BY <1>1, <1>2, <1>6, <2>1, <2>2 DEF Resume, Over, ChildStates, Calling, Settled
<1>7. CASE PostChild(t) \/ PostNotice(t)
  <2>1. /\ pc = "map" /\ child[t] \in {"posting", "noticing"}
        /\ UNCHANGED <<config, stepVars, spent, pc, now, outcome, logged, crashes>>
    BY <1>7 DEF PostChild, PostNotice, Over
  <2>2. \/ Becomes(t, "ok", 0) /\ thread' = [thread EXCEPT ![t] = parentTs]
        \/ /\ Becomes(t, "failed", 0)
           /\ thread' = [thread EXCEPT ![t] = parentTs] \/ UNCHANGED thread
    BY <1>7 DEF PostChild, PostNotice, Delivers
  <2> QED BY <1>1, <1>2, <2>1, <2>2 DEF ChildStates, Calling, Settled
<1> QED BY <1>3, <1>4, <1>5, <1>6, <1>7 DEF ChildTurn

LEMMA ChildStepInv == RInv /\ ChildStep => RInv'
BY ChildStepCases, ChildFrame DEF ChildStep

LEMMA RunStepInv == RInv /\ [RunNext]_runVars => RInv'
<1> SUFFICES ASSUME RInv, [RunNext]_runVars PROVE RInv'
  OBVIOUS
<1>1. CASE HandlerStep
  BY <1>1, ValidateInv, ReplayStepInv, StepFailsInv, StepSucceedsInv, FinalizeInv, StopInv
     DEF HandlerStep
<1>2. CASE ChildStep
  BY <1>2, ChildStepInv
<1>3. CASE LoseParent
  BY <1>3, LoseParentInv
<1>4. CASE Advance \/ TimeOut \/ CrashRun \/ Ended \/ UNCHANGED runVars
  BY <1>4, StopInv DEF Ended
<1> QED BY <1>1, <1>2, <1>3, <1>4 DEF RunNext

LEMMA RunInvariant == RunSpec => []RInv
BY RunInitInv, RunStepInv, PTL DEF RunSpec

-------------------------------------------------------------------------------
(* What the invariant says of a run. *)

\* RunSpec keeps its types, whatever number of children, crashes and replays.
THEOREM RunTypeCorrect == RunSpec => []RunTypeOK
<1>1. RInv => RunTypeOK
  BY DEF RInv
<1> QED BY <1>1, RunInvariant, PTL

\* A run whose steps all worked fails only when every target is settled.
THEOREM RunFailsAfterAll == RunSpec => []FailsAfterAll
<1>1. RInv => FailsAfterAll
  BY DEF RInv, EndInv, Doomed, FailsAfterAll
<1> QED BY <1>1, RunInvariant, PTL

\* A run that succeeds left no target out, and announced each in one thread.
THEOREM RunSucceedsForAll == RunSpec => []SuccessMeansAll
<1>1. RInv => SuccessMeansAll
  BY DEF RInv, EndInv, ThreadInv, SuccessMeansAll, TargetIndices
<1> QED BY <1>1, RunInvariant, PTL

\* The messages of the resources, of their successes and of their timeouts, are all in
\* the thread of a delivered message.
THEOREM RunKeepsOneThread == RunSpec => []OneThread
<1>1. RInv => OneThread
  BY DEF RInv, ThreadInv, OneThread
<1> QED BY <1>1, RunInvariant, PTL

\* The marker is in the log of every run that fails, and of none that succeeds.
THEOREM RunLogsFailure == RunSpec => []FailureLogged
<1>1. RInv => FailureLogged
  BY DEF RInv, EndInv, FailureLogged
<1> QED BY <1>1, RunInvariant, PTL

\* What a run has settled or recorded stays so in every later invocation.
LEMMA StepKeepsProgress == RInv /\ [RunNext]_runVars => ProgressIsKept
<1> SUFFICES ASSUME RInv, [RunNext]_runVars PROVE ProgressIsKept
  OBVIOUS
<1> USE DEF ProgressIsKept
<1>1. /\ spent \in [Indices -> Nat] /\ log \in [Steps -> {"none", "done", "failed"}]
      /\ child \in [Indices -> ChildStates]
      /\ \A t \in Indices : spent[t] <= spent[t]
  BY DEF RInv, RunTypeOK, ChildStates
<1>2. CASE ChildStep
  <2>1. PICK t \in Indices :
           ChildTurn(t)
    BY <1>2 DEF ChildStep
  <2>2. /\ child[t] \notin Settled /\ UNCHANGED <<log, targets, parentTs, outcome>>
        /\ \A u \in Indices : spent[u] <= spent'[u]
        /\ \E state \in ChildStates : child' = [child EXCEPT ![t] = state]
    BY <2>1, ChildStepCases DEF stepVars
  <2> QED BY <1>1, <2>2
<1>3. CASE Rethrow \/ Finalize \/ Validate \/ ReplayStep
  <2>1. UNCHANGED <<child, spent, log, targets, parentTs>>
    BY <1>3 DEF Rethrow, Finalize, Validate, ReplayStep, stepVars, childVars
  <2>2. outcome = "running"
    BY <1>3, StepNames DEF Rethrow, Finalize, Validate, ReplayStep, RInv, EndInv
  <2> QED BY <1>1, <2>1, <2>2
<1>4. CASE StepFails \/ StepSucceeds
  <2>1. /\ pc \in Steps /\ log[pc] = "none" /\ UNCHANGED <<child, spent>>
        /\ \E result \in {"failed", "done"} : log' = [log EXCEPT ![pc] = result]
        /\ pc # "deduplicate-target-resources" => targets' = targets
        /\ pc # "post-slack-messages" => parentTs' = parentTs
    BY <1>4 DEF StepFails, StepSucceeds, childVars
  <2>2. outcome = "running"
    BY <2>1, StepNames DEF RInv, EndInv
  <2>3. parentTs # 0 => pc # "post-slack-messages"
    BY <2>1 DEF RInv, ThreadInv
  <2> QED BY <1>1, <2>1, <2>2, <2>3
<1>5. CASE LoseParent \/ Advance \/ TimeOut \/ CrashRun \/ Ended \/ UNCHANGED runVars
  <2>1. UNCHANGED <<child, spent, log, targets, parentTs>> /\ (outcome # "running" => outcome' = outcome)
    BY <1>5 DEF LoseParent, Advance, TimeOut, CrashRun, Ended, runVars, stepVars, childVars
  <2> QED BY <1>1, <2>1
<1> QED BY <1>2, <1>3, <1>4, <1>5 DEF RunNext, HandlerStep

-------------------------------------------------------------------------------
(* Refinement: the run keeps the promise of RunControl. *)

\* Failing is raising the alarm of the abstract run, once.
LEMMA AlarmMaps ==
    ASSUME RInv, FailRun, Known' = Known, UNCHANGED <<targets, child>>,
           outcome = "running",
           \/ \A t \in Indices : child[t] = "queued"
           \/ /\ Known /\ \A t \in TargetIndices : child[t] \in Settled
              /\ \E t \in TargetIndices : child[t] = "failed"
    PROVE  [Run!ControlNext]_(Run!controlVars)
<1>1. logged' = TRUE /\ outcome' = outcome /\ logged \in BOOLEAN
  BY DEF FailRun, RInv, RunTypeOK
<1>2. [t \in Indices |-> Fate(t)]' = [t \in Indices |-> Fate(t)]
  BY DEF Fate
<1>3. CASE logged
  BY <1>1, <1>2, <1>3 DEF Run!controlVars
<1>4. CASE ~ logged
  <2>1. \/ \A t \in Indices : Fate(t) = "untouched"
        \/ /\ \A t \in Run!Targets : Fate(t) \in Run!Fates
           /\ \E t \in Run!Targets : Fate(t) = "failed"
    BY DEF Fate, Run!Fates, Run!Targets, TargetIndices, Indices, Calling, Settled
  <2>2. Run!Alarm
    BY <1>1, <1>2, <1>4, <2>1 DEF Run!Alarm, Run!Working, Run!Targets, Indices
  <2> QED BY <2>2 DEF Run!ControlNext
<1> QED BY <1>3, <1>4

LEMMA HandlerMaps == RInv /\ RInv' /\ HandlerStep => [Run!ControlNext]_(Run!controlVars)
<1> SUFFICES ASSUME RInv, RInv', HandlerStep PROVE [Run!ControlNext]_(Run!controlVars)
  OBVIOUS
<1>1. logged \in BOOLEAN /\ targets \in 0 .. MaxTargets
  BY DEF RInv, RunTypeOK
<1>2. ASSUME UNCHANGED <<log, targets, child>>, outcome = "running", outcome' = "succeeded",
             logged' = logged
      PROVE  Run!Succeed
  <2>1. Known /\ ~ logged /\ \A t \in TargetIndices : child[t] \in {"ok", "skipped"}
    BY <1>2 DEF RInv, EndInv, Known, TargetIndices
  <2>2. \A t \in Run!Targets : Fate(t) \in {"ok", "skipped"}
    BY <2>1 DEF Fate, Run!Targets, TargetIndices, Indices, Calling, Settled
  <2>3. [t \in Indices |-> Fate(t)]' = [t \in Indices |-> Fate(t)]
    BY <1>2 DEF Fate
  <2> QED BY <1>1, <1>2, <2>1, <2>2, <2>3 DEF Run!Succeed, Run!Working, Run!Unplanned, Run!Targets, Known, Indices
<1>3. ASSUME UNCHANGED <<log, targets, child, outcome, logged>>
      PROVE  UNCHANGED Run!controlVars
  BY <1>3 DEF Run!controlVars, Fate, Known
<1>4. CASE Validate
  <2>1. outcome = "running" /\ UNCHANGED <<log, targets, child>>
    BY <1>4 DEF Validate, RInv, EndInv, stepVars, childVars
  <2>2. CASE config.valid
    BY <1>3, <1>4, <2>1, <2>2 DEF Validate, GoTo
  <2>3. CASE ~ config.valid
    <3>1. \A t \in Indices : child[t] = "queued"
      BY <2>3 DEF RInv, OrderInv, Reached
    <3> QED BY <1>4, <2>1, <2>3, <3>1, AlarmMaps DEF Validate, Known
  <2> QED BY <2>2, <2>3
<1>5. CASE ReplayStep
  <2>1. pc \in Steps /\ outcome = "running" /\ UNCHANGED <<log, targets, child>>
    BY <1>5, StepNames DEF ReplayStep, RInv, EndInv, stepVars, childVars
  <2>2. CASE log[pc] = "failed"
    <3>1. \A t \in Indices : child[t] = "queued"
      BY <2>1, <2>2, ReachedMap DEF RInv, OrderInv
    <3> QED BY <1>5, <2>1, <2>2, <3>1, AlarmMaps DEF ReplayStep, Known
  <2>3. CASE log[pc] # "failed"
    <3>1. \/ outcome' = "succeeded" /\ logged' = logged
          \/ UNCHANGED <<outcome, logged>>
      BY <1>5, <2>1, <2>3, AfterCases DEF ReplayStep
    <3> QED BY <1>2, <1>3, <2>1, <3>1 DEF Run!ControlNext
  <2> QED BY <2>2, <2>3
<1>6. CASE StepFails \/ StepSucceeds
  <2>1. /\ pc \in Steps /\ log[pc] = "none" /\ Reached(pc) /\ outcome = "running"
        /\ child' = child /\ log \in [Steps -> {"none", "done", "failed"}]
    BY <1>6, StepNames DEF StepFails, StepSucceeds, RInv, OrderInv, EndInv, RunTypeOK, childVars
  <2>2. ~ Doomed /\ \A t \in Indices : child[t] = "queued"
    BY <2>1, NoneBegun
  <2>3. ~ logged
    BY <2>2 DEF RInv, EndInv
  <2>4. [t \in Indices |-> Fate(t)]' = [t \in Indices |-> Fate(t)]
    BY <2>1 DEF Fate
  <2>5. CASE StepFails
    <3>1. Known' = Known /\ targets' = targets
      BY <2>1, <2>5 DEF StepFails, Known, Steps
    <3> QED BY <2>1, <2>2, <2>5, <3>1, AlarmMaps DEF StepFails
  <2>6. CASE StepSucceeds /\ pc # "deduplicate-target-resources"
    <3>1. Known' = Known /\ targets' = targets
      BY <2>1, <2>6 DEF StepSucceeds, Known, Steps
    <3>2. UNCHANGED <<outcome, logged>>
      BY <2>1, <2>6, AfterCases DEF StepSucceeds
    <3> QED BY <2>4, <3>1, <3>2 DEF Run!controlVars
  <2>7. CASE StepSucceeds /\ pc = "deduplicate-target-resources"
    <3>1. ~ Known /\ Known' /\ targets' \in 0 .. MaxTargets
      BY <2>1, <2>7 DEF StepSucceeds, Known, Steps
    <3>2. \/ targets' = 0 /\ outcome' = "succeeded" /\ logged' = logged
          \/ targets' # 0 /\ UNCHANGED <<outcome, logged>>
      BY <2>1, <2>7, AfterCases DEF StepSucceeds
    <3>3. CASE targets' = 0
      <4>1. Run!NothingToDo
        BY <2>1, <2>3, <2>4, <3>1, <3>2, <3>3 DEF Run!NothingToDo, Run!Working, Run!Unplanned, Indices
      <4> QED BY <4>1 DEF Run!ControlNext
    <3>4. CASE targets' # 0
      <4>1. targets' \in 1 .. MaxTargets
        BY <3>1, <3>4, BoundsAssumption
      <4>2. Run!Plan
        BY <2>1, <2>3, <2>4, <3>1, <3>2, <3>4, <4>1 DEF Run!Plan, Run!Working, Run!Unplanned, Indices
      <4> QED BY <4>2 DEF Run!ControlNext
    <3> QED BY <3>3, <3>4
  <2> QED BY <1>6, <2>5, <2>6, <2>7
<1>7. CASE Finalize
  <2>1. pc = "map" /\ outcome = "running" /\ UNCHANGED <<log, targets, child>>
    BY <1>7 DEF Finalize, RInv, EndInv, stepVars, childVars
  <2>2. Known
    BY <2>1 DEF RInv, OrderInv, Reached, Earlier, Required, Steps, Known
  <2>3. CASE \E t \in TargetIndices : child[t] = "failed"
    BY <1>7, <2>1, <2>2, <2>3, AlarmMaps DEF Finalize, Known
  <2>4. CASE ~ \E t \in TargetIndices : child[t] = "failed"
    BY <1>2, <1>7, <2>1, <2>4 DEF Finalize, ReturnFromRun, Run!ControlNext
  <2> QED BY <2>3, <2>4
<1>8. CASE Rethrow
  <2>1. /\ logged /\ outcome = "running" /\ outcome' = "failed"
        /\ UNCHANGED <<log, targets, child, logged>>
    BY <1>8 DEF Rethrow, RInv, EndInv, stepVars, childVars
  <2>2. Run!Fail
    BY <2>1 DEF Run!Fail, Fate, Known
  <2> QED BY <2>2 DEF Run!ControlNext
<1> QED BY <1>4, <1>5, <1>6, <1>7, <1>8 DEF HandlerStep

\* A child begins, goes on, or is settled.
LEMMA ChildMaps == RInv /\ RInv' /\ ChildStep => [Run!ControlNext]_(Run!controlVars)
<1> SUFFICES ASSUME RInv, RInv', ChildStep PROVE [Run!ControlNext]_(Run!controlVars)
  OBVIOUS
<1>1. PICK t \in Indices :
         ChildTurn(t)
  BY DEF ChildStep
<1>2. /\ child[t] \notin Settled /\ UNCHANGED <<config, log, targets, outcome, logged>> /\ pc = "map"
      /\ t \in TargetIndices \/ child[t] # "queued"
  BY <1>1, ChildStepCases DEF stepVars
<1>3. PICK state \in ChildStates :
         /\ child' = [child EXCEPT ![t] = state]
         /\ \/ child[t] = "queued" /\ state = "checking"
            \/ child[t] # "queued" /\ state # "queued"
  BY <1>1, ChildStepCases
<1>4. ~ logged /\ outcome = "running" /\ t \in TargetIndices /\ Known
  BY <1>2, OpenChild
<1>5. child \in [Indices -> ChildStates] /\ targets \in Nat
  BY BoundsAssumption DEF RInv, RunTypeOK, ChildStates
<1>6. t \in Run!Targets
  BY <1>4 DEF Run!Targets, TargetIndices, Indices
<1>7. /\ child[t] = "queued" => Fate(t) = "untouched" /\ Fate(t)' = "begun"
      /\ child[t] # "queued" => Fate(t) = "begun" /\ Fate(t)' \in {"begun"} \cup Run!Fates
  BY <1>2, <1>3, <1>5 DEF Fate, ChildStates, Calling, Settled, Run!Fates
<1>8. [u \in Indices |-> Fate(u)]' = [[u \in Indices |-> Fate(u)] EXCEPT ![t] = Fate(t)']
  BY <1>3, <1>5 DEF Fate, Calling
<1>9. CASE child[t] = "queued"
  <2>1. Run!Begin(t)
    BY <1>2, <1>4, <1>7, <1>8, <1>9 DEF Run!Begin, Run!Working, Known
  <2> QED BY <1>6, <2>1 DEF Run!ControlNext
<1>10. CASE child[t] # "queued" /\ Fate(t)' = "begun"
  <2>1. [u \in Indices |-> Fate(u)]' = [u \in Indices |-> Fate(u)]
    BY <1>7, <1>8, <1>10
  <2> QED BY <1>2, <2>1 DEF Run!controlVars, Known
<1>11. CASE child[t] # "queued" /\ Fate(t)' \in Run!Fates
  <2>1. Run!Settle(t)
    BY <1>2, <1>4, <1>7, <1>8, <1>11 DEF Run!Settle, Run!Working, Known
  <2> QED BY <1>6, <2>1 DEF Run!ControlNext
<1> QED BY <1>7, <1>9, <1>10, <1>11

LEMMA RunStepMaps == RInv /\ RInv' /\ [RunNext]_runVars => [Run!ControlNext]_(Run!controlVars)
<1> SUFFICES ASSUME RInv, RInv', [RunNext]_runVars PROVE [Run!ControlNext]_(Run!controlVars)
  OBVIOUS
<1>1. CASE TimeOut
  <2>1. outcome = "running" /\ outcome' = "timed-out" /\ UNCHANGED <<log, targets, child, logged>>
    BY <1>1 DEF TimeOut, stepVars, childVars
  <2>2. Run!Stop
    BY <2>1 DEF Run!Stop, Fate, Known
  <2> QED BY <2>2 DEF Run!ControlNext
<1>2. CASE LoseParent \/ Advance \/ CrashRun \/ Ended \/ UNCHANGED runVars
  <2>1. UNCHANGED <<log, targets, child, outcome, logged>>
    BY <1>2 DEF LoseParent, Advance, CrashRun, Ended, runVars, stepVars, childVars
  <2> QED BY <2>1 DEF Run!controlVars, Fate, Known
<1> QED BY <1>1, <1>2, HandlerMaps, ChildMaps DEF RunNext

\* Through replays, crashes and the time limit, a run does what RunControl says.
THEOREM RunImplementsControl == RunSpec => KeepsPromise
<1>1. RunInit => Run!ControlInit
  <2> SUFFICES ASSUME RunInit PROVE Run!ControlInit
    OBVIOUS
  <2>1. \A t \in Indices : child[t] = "queued"
    BY DEF RunInit
  <2>2. [t \in Indices |-> Fate(t)] = [t \in Indices |-> "untouched"]
    BY <2>1 DEF Fate, Calling
  <2>3. ~ Known
    BY DEF RunInit, Known, Steps
  <2>4. logged = FALSE /\ outcome = "running"
    BY DEF RunInit
  <2> QED BY <2>2, <2>3, <2>4 DEF Run!ControlInit, Run!Unplanned, Indices
<1> QED BY <1>1, RunInvariant, RunStepMaps, RunStepInv, RunInitInv, PTL DEF RunSpec, KeepsPromise, Run!ControlSpec

-------------------------------------------------------------------------------
(* Time.  Targets begin in their order, each when a place is free, so the   *)
(* target that is MaxConcurrency before another is over when that begins:   *)
(* each batch takes no longer than one target may.  What the steps of the  *)
(* handler and the dead invocations cost comes on top, once for the run.   *)

\* One more wait, with the turn before it.
Turn(call) == Interval + call

\* When the batch of a target begins at the latest, counted from the first batch.
Start(t, call) == ((t - 1) \div MaxConcurrency) * BatchSeconds(call)

\* The steps that have a result.
Result(results, s) == IF results[s] = "none" THEN 0 ELSE 1

Recorded(results) ==
    Result(results, "fetch-slack-secret") + Result(results, "get-target-regions")
    + Result(results, "get-resources") + Result(results, "deduplicate-target-resources")
    + Result(results, "post-slack-messages")

\* A target that has waited n times is no later than n turns after the moment its
\* batch began, not counting what it is at.
OnTime(t, n, begun, call) ==
    /\ child[t] = "queued"   => now <= begun
    /\ child[t] = "checking" => now <= wake[t] /\ wake[t] <= begun + n * Turn(call) + call
    /\ child[t] = "waiting"  =>
          /\ (n + 1) * Interval <= Max
          /\ now <= wake[t] /\ wake[t] <= begun + (n + 1) * Turn(call)
    /\ child[t] \in {"posting", "noticing"} =>
          now <= wake[t] /\ wake[t] <= begun + n * Turn(call) + 2 * call

\* When the batch of a target began at the latest, in a run of that many deaths.
Begun(t, step, call) == OtherSeconds(step, call, crashes) + Start(t, call)

TimeInv(step, call) ==
    /\ outcome = "running" /\ (\A t \in Indices : child[t] = "queued")
          => now <= Recorded(log) * step + crashes * (step + call)
    /\ \E b \in Nat : \A t \in Indices : child[t] = "queued" <=> t > b
    /\ \A t \in Indices : \E n \in Nat :
          /\ spent[t] = n * Interval /\ n * Interval <= Max
          /\ t \in TargetIndices => OnTime(t, n, Begun(t, step, call), call)
    /\ now <= RunSeconds(step, call, Batches, crashes)

LEMMA Division ==
    ASSUME NEW a \in Nat, NEW m \in Nat \ {0}
    PROVE  a \div m \in Nat /\ (a \div m) * m <= a /\ a < (a \div m + 1) * m
<1>1. a \div m \in Int /\ a % m \in 0 .. (m - 1) /\ a = m * (a \div m) + (a % m)
  OBVIOUS
<1>2. a \div m \in Nat
  OBVIOUS
<1>3. m * (a \div m) = (a \div m) * m /\ (a \div m + 1) * m = (a \div m) * m + m
  BY <1>2
<1> QED BY <1>1, <1>2, <1>3

LEMMA FewerTimes ==
    ASSUME NEW p \in Nat, NEW q \in Nat, NEW m \in Nat \ {0}, p * m < q * m
    PROVE  p < q
<1>1. q <= p => q * m <= p * m
  OBVIOUS
<1> QED BY <1>1

\* A place later in the list by a whole batch is in a later batch.
LEMMA NextBatch ==
    ASSUME NEW a \in Nat, NEW b \in Nat, NEW m \in Nat \ {0}, a + m <= b
    PROVE  a \div m + 1 <= b \div m
<1> DEFINE p == a \div m
           q == b \div m
<1>1. p \in Nat /\ p * m <= a /\ q \in Nat /\ b < (q + 1) * m
  BY Division
<1> HIDE DEF p, q
<1>2. (p + 1) * m = p * m + m /\ (p + 1) * m \in Nat /\ (q + 1) * m \in Nat /\ p * m \in Nat
  BY <1>1
<1>3. (p + 1) * m < (q + 1) * m
  BY <1>1, <1>2
<1>4. p + 1 < q + 1
  BY <1>1, <1>3, FewerTimes
<1> QED BY <1>1, <1>4 DEF p, q

LEMMA TimeNumbers ==
    ASSUME NEW call \in CallSeconds
    PROVE  /\ StepSeconds \subseteq Nat /\ call \in Nat /\ Interval \in Nat \ {0} /\ Max \in Nat
           /\ MaxConcurrency \in Nat \ {0} /\ MaxTargets \in Nat
           /\ Max \div Interval \in Nat
           /\ Turn(call) \in Nat
           /\ BatchSeconds(call) \in Nat
<1>1. /\ StepSeconds \subseteq Nat /\ call \in Nat /\ Interval \in Nat \ {0} /\ Max \in Nat
      /\ MaxConcurrency \in Nat \ {0} /\ MaxTargets \in Nat
  BY WaitAssumption, LimitsAssumption, BoundsAssumption DEF resolveResourceWait
<1>2. Max \div Interval \in Nat
  BY <1>1, Division
<1>3. call * (Max \div Interval + 2) \in Nat
  BY <1>1, <1>2, Products
<1> QED BY <1>1, <1>2, <1>3 DEF Turn, BatchSeconds

\* What the steps and the dead invocations cost, and one of each more.
LEMMA OtherNumbers ==
    ASSUME NEW step \in StepSeconds, NEW call \in CallSeconds, NEW deaths \in Nat
    PROVE  /\ deaths * (step + call) \in Nat
           /\ OtherSeconds(step, call, deaths) = 5 * step + deaths * (step + call)
           /\ OtherSeconds(step, call, deaths) \in Nat
           /\ (deaths + 1) * (step + call) = deaths * (step + call) + step + call
           /\ OtherSeconds(step, call, deaths + 1)
                = OtherSeconds(step, call, deaths) + step + call
<1>1. step \in Nat /\ call \in Nat /\ step + call \in Nat
  BY TimeNumbers
<1>2. deaths * (step + call) \in Nat
  BY <1>1, Products
<1>3. (deaths + 1) * (step + call) = deaths * (step + call) + (step + call)
  BY <1>1, Products
<1> QED BY <1>1, <1>2, <1>3 DEF OtherSeconds

LEMMA RecordedNumbers ==
    ASSUME NEW results, NEW step \in StepSeconds
    PROVE  /\ Recorded(results) \in 0 .. 5
           /\ Recorded(results) * step \in Nat /\ Recorded(results) * step <= 5 * step
<1>1. Recorded(results) \in 0 .. 5
  BY DEF Recorded, Result
<1>2. step \in Nat
  BY LimitsAssumption
<1> HIDE DEF Recorded
<1>3. Recorded(results) * step \in Nat /\ Recorded(results) * step <= 5 * step
  BY <1>1, <1>2, Products
<1> QED BY <1>1, <1>3

\* A step that gets its result is one more.
LEMMA OneMore ==
    ASSUME NEW results \in [Steps -> {"none", "done", "failed"}],
           NEW s \in Steps, results[s] = "none", NEW result \in {"done", "failed"}
    PROVE  Recorded([results EXCEPT ![s] = result]) = Recorded(results) + 1
<1> DEFINE after == [results EXCEPT ![s] = result]
<1>1. /\ after[s] = result /\ \A other \in Steps : other # s => after[other] = results[other]
      /\ result # "none"
  OBVIOUS
<1> HIDE DEF after
<1>2. Result(after, s) = 1 /\ Result(results, s) = 0
  BY <1>1 DEF Result
<1>3. \A other \in Steps : other # s => Result(after, other) = Result(results, other)
  BY <1>1 DEF Result
<1>4. \A any \in Steps : Result(after, any) \in Nat /\ Result(results, any) \in Nat
  BY DEF Result
<1>5. Recorded(after) = Recorded(results) + 1
  BY <1>2, <1>3, <1>4 DEF Recorded, Steps
<1> QED BY <1>5 DEF after

\* The waits that fit in the maximum, with their turns, the last one and a message
\* are a batch at most.
LEMMA TurnsInBatch ==
    ASSUME NEW call \in CallSeconds, NEW n \in Nat, n * Interval <= Max
    PROVE  n * Turn(call) \in Nat /\ n * Turn(call) + 2 * call <= BatchSeconds(call)
<1> DEFINE q == Max \div Interval
<1>1. /\ call \in Nat /\ Interval \in Nat \ {0} /\ Max \in Nat /\ q \in Nat
      /\ Max < (q + 1) * Interval
  BY LimitsAssumption, TimeNumbers, Division
<1>2. BatchSeconds(call) = Max + call * (q + 2)
  BY DEF BatchSeconds
<1> HIDE DEF q
<1>3. n * Interval \in Nat /\ (q + 1) * Interval \in Nat
  BY <1>1
<1>4. n < q + 1
  BY <1>1, <1>3, FewerTimes
<1>5. n * Turn(call) = n * Interval + n * call
  BY <1>1, Products DEF Turn
<1>6. n * call <= q * call /\ q * call = call * q /\ n * call \in Nat /\ call * q \in Nat
  BY <1>1, <1>4, Products
<1>7. call * (q + 2) = call * q + call * 2 /\ call * 2 = 2 * call
  BY <1>1, Products
<1> QED BY <1>1, <1>2, <1>3, <1>5, <1>6, <1>7

LEMMA StartFacts ==
    ASSUME NEW call \in CallSeconds, NEW t \in Indices
    PROVE  /\ Start(t, call) \in Nat
           /\ \A u \in Indices : u + MaxConcurrency <= t =>
                 Start(u, call) + BatchSeconds(call) <= Start(t, call)
           /\ targets \in Nat /\ t <= targets =>
                 Start(t, call) + BatchSeconds(call) <= Batches * BatchSeconds(call)
<1> DEFINE m == MaxConcurrency
           B == BatchSeconds(call)
           Batch(a) == a \div m
<1>1. m \in Nat \ {0} /\ B \in Nat /\ t \in Nat \ {0} /\ t - 1 \in Nat
  BY LimitsAssumption, TimeNumbers DEF Indices
<1>2. \A a \in Nat : Batch(a) \in Nat
  BY <1>1, Division
<1>3. ASSUME NEW a \in Nat, NEW b \in Nat, a + m <= b
      PROVE  Batch(a) * B + B <= Batch(b) * B
  <2>1. Batch(a) + 1 <= Batch(b) /\ Batch(a) \in Nat /\ Batch(b) \in Nat
    BY <1>1, <1>2, <1>3, NextBatch
  <2> HIDE DEF Batch, B
  <2>2. (Batch(a) + 1) * B <= Batch(b) * B
    BY <1>1, <2>1, Products
  <2>3. (Batch(a) + 1) * B = Batch(a) * B + B
    BY <1>1, <2>1, Products
  <2> QED BY <2>2, <2>3
<1>4. Start(t, call) = Batch(t - 1) * B /\ \A u : Start(u, call) = Batch(u - 1) * B
  BY DEF Start
<1>5. Batches = Batch(targets + m - 1)
  BY DEF Batches
<1> HIDE DEF Batch, B, m
<1>6. Start(t, call) \in Nat
  BY <1>1, <1>2, <1>4, Products
<1>7. ASSUME NEW u \in Indices, u + m <= t
      PROVE  Start(u, call) + B <= Start(t, call)
  <2>1. u - 1 \in Nat /\ (u - 1) + m <= t - 1
    BY <1>1, <1>7 DEF Indices
  <2> QED BY <1>1, <1>3, <1>4, <2>1
<1>8. ASSUME targets \in Nat, t <= targets
      PROVE  Start(t, call) + B <= Batches * B
  <2>1. targets + m - 1 \in Nat /\ (t - 1) + m <= targets + m - 1
    BY <1>1, <1>8
  <2> QED BY <1>1, <1>3, <1>4, <1>5, <2>1
<1> QED BY <1>6, <1>7, <1>8 DEF B, m

\* No run is shorter than its steps and its deaths, and each batch adds to it.
LEMMA RunNumbers ==
    ASSUME NEW step \in StepSeconds, NEW call \in CallSeconds,
           NEW deaths \in Nat, NEW batches \in Nat
    PROVE  /\ RunSeconds(step, call, batches, deaths)
                = OtherSeconds(step, call, deaths) + batches * BatchSeconds(call)
           /\ batches * BatchSeconds(call) \in Nat
           /\ RunSeconds(step, call, batches, deaths) \in Nat
<1>1. OtherSeconds(step, call, deaths) \in Nat /\ BatchSeconds(call) \in Nat
  BY OtherNumbers, TimeNumbers
<1>2. batches * BatchSeconds(call) \in Nat
  BY <1>1, Products
<1> QED BY <1>1, <1>2 DEF RunSeconds

LEMMA BatchesNumber ==
    ASSUME targets \in Nat
    PROVE  Batches \in Nat
BY LimitsAssumption, Division DEF Batches

LEMMA TimeInitInv ==
    ASSUME NEW step \in StepSeconds, NEW call \in CallSeconds, RunInit
    PROVE  TimeInv(step, call)
<1>1. /\ now = 0 /\ targets = 0 /\ crashes = 0
      /\ \A t \in Indices : child[t] = "queued" /\ spent[t] = 0
  BY DEF RunInit
<1>2. \A t \in Indices : child[t] = "queued" <=> t > 0
  BY <1>1, TimeNumbers DEF Indices
<1>3. \A t \in Indices : t \notin TargetIndices
  BY <1>1, TimeNumbers DEF Indices, TargetIndices
<1>4. 0 * Interval = 0 /\ 0 <= Max
  BY TimeNumbers
<1>5. now <= Recorded(log) * step + crashes * (step + call)
  BY <1>1, RecordedNumbers, OtherNumbers
<1>6. now <= RunSeconds(step, call, Batches, crashes)
  BY <1>1, BatchesNumber, RunNumbers
<1> QED BY <1>1, <1>2, <1>3, <1>4, <1>5, <1>6 DEF TimeInv

\* Nothing of a step has to do with time.
LEMMA TimeKept ==
    ASSUME NEW step \in StepSeconds, NEW call \in CallSeconds, TimeInv(step, call),
           UNCHANGED <<childVars, now, log, targets, crashes>>,
           outcome # "running" => outcome' = outcome
    PROVE  TimeInv(step, call)'
<1>1. UNCHANGED <<child, spent, wake, now, log, targets, crashes>>
  BY DEF childVars
<1>2. outcome' = "running" => outcome = "running"
  OBVIOUS
<1>3. Recorded(log)' = Recorded(log) /\ Batches' = Batches /\ TargetIndices' = TargetIndices
  BY <1>1 DEF Batches, TargetIndices
<1>4. \A t \in Indices, n \in Nat :
         OnTime(t, n, Begun(t, step, call), call)' <=> OnTime(t, n, Begun(t, step, call), call)
  BY <1>1 DEF OnTime, Begun
<1> QED BY <1>1, <1>2, <1>3, <1>4 DEF TimeInv

\* While no child has begun, only the steps and the dead invocations take time.
LEMMA TimeOfSteps ==
    ASSUME NEW step \in StepSeconds, NEW call \in CallSeconds,
           RInv, RInv', TimeInv(step, call),
           \A t \in Indices : child[t] = "queued", UNCHANGED <<child, spent>>,
           now' <= OtherSeconds(step, call, crashes'),
           outcome' = "running" =>
              now' <= Recorded(log') * step + crashes' * (step + call)
    PROVE  TimeInv(step, call)'
<1>1. targets' \in Nat /\ crashes' \in Nat /\ now' \in Nat
  BY BoundsAssumption DEF RInv, RunTypeOK
<1>2. OtherSeconds(step, call, crashes') \in Nat
  BY <1>1, OtherNumbers
<1>3. ASSUME NEW t \in Indices, NEW n \in Nat
      PROVE  OnTime(t, n, Begun(t, step, call), call)'
  <2>1. child'[t] = "queued" /\ Start(t, call) \in Nat
    BY <1>3, StartFacts
  <2>2. Begun(t, step, call)' = OtherSeconds(step, call, crashes') + Start(t, call)
    BY DEF Begun
  <2> QED BY <1>1, <1>2, <2>1, <2>2 DEF OnTime
<1>4. (Batches)' \in Nat
  <2>1. targets' + MaxConcurrency - 1 \in Nat /\ MaxConcurrency \in Nat \ {0}
    BY <1>1, TimeNumbers
  <2> QED BY <2>1, Division DEF Batches
<1>5. now' <= RunSeconds(step, call, (Batches)', crashes')
  <2>1. /\ RunSeconds(step, call, (Batches)', crashes')
             = OtherSeconds(step, call, crashes') + (Batches)' * BatchSeconds(call)
        /\ (Batches)' * BatchSeconds(call) \in Nat
    BY <1>1, <1>4, RunNumbers
  <2> QED BY <1>1, <1>2, <2>1
<1> QED BY <1>3, <1>5 DEF TimeInv

\* Time stands still, and one child goes on.
LEMMA TimeChild ==
    ASSUME NEW step \in StepSeconds, NEW call \in CallSeconds, \A s \in CallSeconds : s <= call,
           RInv, TimeInv(step, call), NEW t \in Indices, ChildTurn(t)
    PROVE  TimeInv(step, call)'
<1>1. /\ UNCHANGED <<config, stepVars, log, now, crashes>>
      /\ child \in [Indices -> ChildStates] /\ spent \in [Indices -> Nat]
      /\ wake \in [Indices -> Nat] /\ now \in Nat /\ crashes \in Nat
      /\ TargetIndices' = TargetIndices /\ Batches' = Batches
  BY ChildStepCases, BoundsAssumption
     DEF stepVars, TargetIndices, Batches, RInv, RunTypeOK, ChildStates
<1>2. PICK state \in ChildStates :
         /\ child' = [child EXCEPT ![t] = state]
         /\ \/ child[t] = "queued" /\ state = "checking"
            \/ child[t] # "queued" /\ state # "queued"
  BY ChildStepCases
<1>3. \A u \in Indices : u # t => UNCHANGED <<child[u], spent[u], wake[u]>>
  BY ChildStepCases
<1>4. \A u \in Indices : Begun(u, step, call)' = Begun(u, step, call)
  BY <1>1 DEF Begun
<1> DEFINE begun == Begun(t, step, call)
<1>5. begun \in Nat
  BY <1>1, OtherNumbers, StartFacts DEF Begun
<1>6. PICK n \in Nat :
         /\ spent[t] = n * Interval /\ n * Interval <= Max
         /\ t \in TargetIndices => OnTime(t, n, begun, call)
  BY DEF TimeInv
<1>7. /\ n * Interval \in Nat /\ (n + 1) * Interval = n * Interval + Interval
      /\ n * Turn(call) \in Nat /\ (n + 1) * Turn(call) = n * Turn(call) + Turn(call)
      /\ call \in Nat /\ Interval \in Nat /\ Max \in Nat /\ Turn(call) = Interval + call
      /\ \A s \in CallSeconds : s \in Nat /\ s <= call
  BY TimeNumbers, Products, LimitsAssumption DEF Turn
<1>8. t \in TargetIndices
  BY ChildStepCases DEF RInv, OrderInv, TargetIndices
<1>9. OnTime(t, n, begun, call)
  BY <1>6, <1>8
<1> HIDE DEF begun
<1>10. \E k \in Nat : spent'[t] = k * Interval /\ k * Interval <= Max /\ OnTime(t, k, begun, call)'
  <2>1. CASE StartChild(t)
    <3>1. PICK seconds \in CallSeconds : Becomes(t, "checking", now + seconds)
      BY <2>1 DEF StartChild
    <3>2. child[t] = "queued" /\ child'[t] = "checking" /\ wake'[t] = now + seconds
      BY <1>1, <2>1, <3>1 DEF StartChild, CanStart, Becomes
    <3>3. spent' = spent
      BY <2>1 DEF StartChild
    <3>4. now <= wake'[t] /\ wake'[t] <= begun + n * Turn(call) + call
      BY <1>1, <1>5, <1>7, <1>9, <3>2 DEF OnTime
    <3> QED BY <1>1, <1>4, <1>6, <3>2, <3>3, <3>4 DEF OnTime, begun
  <2>2. CASE Check(t)
    <3>1. PICK next \in {"skipped", "posting", "noticing", "ok", "failed", "waiting"},
               moment \in Nat :
             /\ Becomes(t, next, moment)
             /\ next = "waiting" => spent[t] + Interval <= Max /\ moment = now + Interval
             /\ next \in Calling => \E seconds \in CallSeconds : moment = now + seconds
      BY <2>2, CheckCases
    <3>2. child[t] = "checking" /\ now >= wake[t] /\ spent' = spent
      BY <2>2 DEF Check, Over
    <3>3. child'[t] = next /\ wake'[t] = moment
      BY <1>1, <3>1 DEF Becomes
    <3>4. now <= begun + n * Turn(call) + call
      BY <1>1, <1>5, <1>7, <1>9, <3>2 DEF OnTime
    <3>5. CASE next = "waiting"
      <4>1. (n + 1) * Interval <= Max
        BY <1>6, <1>7, <3>1, <3>5
      <4>2. now <= wake'[t] /\ wake'[t] <= begun + (n + 1) * Turn(call)
        BY <1>1, <1>5, <1>7, <3>1, <3>3, <3>4, <3>5
      <4> QED BY <1>1, <1>4, <1>6, <3>2, <3>3, <3>5, <4>1, <4>2 DEF OnTime, begun
    <3>6. CASE next \in {"posting", "noticing"}
      <4>1. PICK seconds \in CallSeconds : moment = now + seconds
        BY <3>1, <3>6 DEF Calling
      <4>2. now <= wake'[t] /\ wake'[t] <= begun + n * Turn(call) + 2 * call
        BY <1>1, <1>5, <1>7, <3>3, <3>4, <4>1
      <4> QED BY <1>1, <1>4, <1>6, <3>2, <3>3, <3>6, <4>2 DEF OnTime, begun
    <3>7. CASE next \in {"skipped", "ok", "failed"}
      BY <1>6, <3>2, <3>3, <3>7 DEF OnTime
    <3> QED BY <3>1, <3>5, <3>6, <3>7
  <2>3. CASE CheckFails(t) \/ PostChild(t) \/ PostNotice(t)
    <3>1. spent' = spent /\ child'[t] \in {"failed", "ok"}
      BY <1>1, <2>3 DEF CheckFails, PostChild, PostNotice, Becomes
    <3> QED BY <1>6, <3>1 DEF OnTime
  <2>4. CASE Resume(t)
    <3>1. PICK seconds \in CallSeconds : Becomes(t, "checking", now + seconds)
      BY <2>4 DEF Resume
    <3>2. /\ child[t] = "waiting" /\ child'[t] = "checking" /\ now >= wake[t]
          /\ wake'[t] = now + seconds
      BY <1>1, <2>4, <3>1 DEF Resume, Over, Becomes
    <3>3. spent'[t] = (n + 1) * Interval /\ n + 1 \in Nat /\ (n + 1) * Interval <= Max
      BY <1>1, <1>6, <1>7, <1>9, <2>4, <3>2 DEF Resume, OnTime
    <3>4. now <= wake'[t] /\ wake'[t] <= begun + (n + 1) * Turn(call) + call
      BY <1>1, <1>5, <1>7, <1>9, <3>2 DEF OnTime
    <3> QED BY <1>1, <1>4, <3>2, <3>3, <3>4 DEF OnTime, begun
  <2> QED BY <2>1, <2>2, <2>3, <2>4 DEF ChildTurn
<1>11. \A u \in Indices : \E k \in Nat :
          /\ spent'[u] = k * Interval /\ k * Interval <= Max
          /\ u \in TargetIndices' => OnTime(u, k, Begun(u, step, call), call)'
  <2>1. ASSUME NEW u \in Indices, u # t
        PROVE  \E k \in Nat :
                 /\ spent'[u] = k * Interval /\ k * Interval <= Max
                 /\ u \in TargetIndices' => OnTime(u, k, Begun(u, step, call), call)'
    <3>1. PICK k \in Nat :
             /\ spent[u] = k * Interval /\ k * Interval <= Max
             /\ u \in TargetIndices => OnTime(u, k, Begun(u, step, call), call)
      BY DEF TimeInv
    <3>2. OnTime(u, k, Begun(u, step, call), call)
            => OnTime(u, k, Begun(u, step, call), call)'
      BY <1>1, <1>3, <1>4, <2>1 DEF OnTime
    <3> QED BY <1>1, <1>3, <2>1, <3>1, <3>2
  <2> QED BY <1>10, <2>1 DEF begun
<1>12. \E b \in Nat : \A u \in Indices : child'[u] = "queued" <=> u > b
  <2>1. PICK b \in Nat : \A u \in Indices : child[u] = "queued" <=> u > b
    BY DEF TimeInv
  <2>2. CASE child[t] # "queued"
    BY <1>1, <1>2, <2>1, <2>2
  <2>3. CASE child[t] = "queued"
    <3>1. StartChild(t)
      BY <2>3 DEF ChildTurn, Check, CheckFails, Resume, PostChild, PostNotice, Over
    <3>2. \A u \in TargetIndices : u < t => child[u] # "queued"
      BY <3>1 DEF StartChild, CanStart
    <3>3. t = b + 1
      <4>1. t > b /\ t \in Nat
        BY <2>1, <2>3, TimeNumbers DEF Indices
      <4>2. b + 1 < t => b + 1 \in TargetIndices /\ child[b + 1] = "queued"
        BY <1>8, <2>1, <4>1, TimeNumbers DEF Indices, TargetIndices, RInv, RunTypeOK
      <4> QED BY <2>1, <3>2, <4>1, <4>2
    <3>4. \A u \in Indices : child'[u] = "queued" <=> u > b + 1
      BY <1>1, <1>2, <2>1, <2>3, <3>3, TimeNumbers DEF Indices
    <3> QED BY <2>1, <3>4
  <2> QED BY <2>2, <2>3
<1>13. child'[t] # "queued"
  BY <1>1, <1>2
<1>14. now' <= RunSeconds(step, call, Batches', crashes')
  BY <1>1 DEF TimeInv
<1> QED BY <1>11, <1>12, <1>13, <1>14 DEF TimeInv

\* A child that has a place leaves it within the batch.
LEMMA TimeOfPlace ==
    ASSUME NEW step \in StepSeconds, NEW call \in CallSeconds,
           RInv, TimeInv(step, call), NEW u \in Active
    PROVE  /\ u \in Indices /\ u \in TargetIndices
           /\ wake[u] \in Nat
           /\ wake[u] <= Begun(u, step, call) + BatchSeconds(call)
<1>1. /\ u \in Indices /\ child[u] \in {"waiting", "checking", "posting", "noticing"}
  BY DEF Active, Calling
<1>2. u \in TargetIndices /\ wake[u] \in Nat /\ crashes \in Nat
  BY <1>1, BoundsAssumption DEF RInv, RunTypeOK, OrderInv, TargetIndices
<1>3. PICK n \in Nat : n * Interval <= Max /\ OnTime(u, n, Begun(u, step, call), call)
  BY <1>1, <1>2 DEF TimeInv
<1>4. Begun(u, step, call) \in Nat /\ BatchSeconds(call) \in Nat /\ call \in Nat
  <2>1. OtherSeconds(step, call, crashes) \in Nat /\ Start(u, call) \in Nat
    BY <1>1, <1>2, OtherNumbers, StartFacts
  <2>2. BatchSeconds(call) \in Nat /\ call \in Nat
    BY TimeNumbers
  <2> QED BY <2>1, <2>2 DEF Begun
<1>5. n * Turn(call) \in Nat /\ n * Turn(call) + 2 * call <= BatchSeconds(call)
  BY <1>3, TurnsInBatch
<1>6. CASE child[u] = "waiting"
  <2>1. /\ (n + 1) * Interval <= Max
        /\ wake[u] <= Begun(u, step, call) + (n + 1) * Turn(call)
    BY <1>3, <1>6 DEF OnTime
  <2>2. /\ (n + 1) * Turn(call) \in Nat
        /\ (n + 1) * Turn(call) + 2 * call <= BatchSeconds(call)
    BY <2>1, TurnsInBatch
  <2> QED BY <1>1, <1>2, <1>4, <2>1, <2>2
<1>7. CASE child[u] # "waiting"
  <2>1. wake[u] <= Begun(u, step, call) + n * Turn(call) + 2 * call
    BY <1>1, <1>2, <1>3, <1>4, <1>5, <1>7 DEF OnTime
  <2> QED BY <1>1, <1>2, <1>4, <1>5, <2>1
<1> QED BY <1>6, <1>7

\* While a target is queued all places are taken, one of them by a target that is
\* a batch before it, and time stops for that one.
LEMMA TimeAdvance ==
    ASSUME NEW step \in StepSeconds, NEW call \in CallSeconds,
           RInv, TimeInv(step, call), Advance
    PROVE  TimeInv(step, call)'
<1>1. /\ UNCHANGED <<config, child, spent, wake, log, targets, crashes>>
      /\ TargetIndices' = TargetIndices /\ Batches' = Batches
      /\ \A t \in TargetIndices : ~ CanStart(t)
      /\ Active # {}
  BY DEF Advance, Idle, stepVars, childVars, TargetIndices, Batches
<1>2. /\ now \in Nat /\ now' \in Nat /\ targets \in Nat /\ crashes \in Nat
      /\ \A t \in Indices : wake[t] \in Nat
      /\ \A t \in Active : now' <= wake[t]
  BY BoundsAssumption, LimitsAssumption DEF Advance, RInv, RunTypeOK, Active
<1>3. ~ \A t \in Indices : child[t] = "queued"
  BY <1>1 DEF Active, Calling
<1>4. ASSUME NEW u \in Active
      PROVE  /\ u \in Indices /\ u \in TargetIndices
             /\ now' <= Begun(u, step, call) + BatchSeconds(call)
             /\ OtherSeconds(step, call, crashes) \in Nat /\ BatchSeconds(call) \in Nat
             /\ Start(u, call) \in Nat
             /\ Begun(u, step, call) = OtherSeconds(step, call, crashes) + Start(u, call)
  <2>1. /\ u \in Indices /\ u \in TargetIndices /\ wake[u] \in Nat
        /\ wake[u] <= Begun(u, step, call) + BatchSeconds(call)
    BY <1>4, TimeOfPlace
  <2>2. /\ OtherSeconds(step, call, crashes) \in Nat /\ BatchSeconds(call) \in Nat
        /\ Start(u, call) \in Nat
        /\ Begun(u, step, call) = OtherSeconds(step, call, crashes) + Start(u, call)
    BY <1>2, <2>1, OtherNumbers, TimeNumbers, StartFacts DEF Begun
  <2> QED BY <1>2, <1>4, <2>1, <2>2
<1>5. now' <= RunSeconds(step, call, Batches, crashes)
  <2>1. PICK u \in Active : TRUE
    BY <1>1
  <2>2. u <= targets
    BY <1>4 DEF TargetIndices
  <2>3. Start(u, call) + BatchSeconds(call) <= Batches * BatchSeconds(call)
    BY <1>2, <1>4, <2>2, StartFacts
  <2>4. /\ Batches * BatchSeconds(call) \in Nat
        /\ RunSeconds(step, call, Batches, crashes)
             = OtherSeconds(step, call, crashes) + Batches * BatchSeconds(call)
    BY <1>2, BatchesNumber, RunNumbers
  <2>5. /\ now' <= Begun(u, step, call) + BatchSeconds(call)
        /\ OtherSeconds(step, call, crashes) \in Nat /\ BatchSeconds(call) \in Nat
        /\ Start(u, call) \in Nat
        /\ Begun(u, step, call) = OtherSeconds(step, call, crashes) + Start(u, call)
    BY <1>4
  <2> QED BY <1>2, <2>3, <2>4, <2>5
<1>6. ASSUME NEW t \in TargetIndices, child[t] = "queued"
      PROVE  now' <= Begun(t, step, call)
  <2>1. PICK b \in Nat : \A u \in Indices : child[u] = "queued" <=> u > b
    BY DEF TimeInv
  <2>2. t \in Indices /\ t \in Nat /\ t > b
    BY <1>6, <2>1, TimeNumbers DEF TargetIndices, Indices
  <2>3. b + 1 \in TargetIndices /\ child[b + 1] = "queued"
    BY <1>2, <1>6, <2>1, <2>2, TimeNumbers DEF TargetIndices, Indices
  <2>4. \A u \in TargetIndices : u < b + 1 => child[u] # "queued"
    BY <2>1, TimeNumbers DEF TargetIndices, Indices
  <2>5. ~ (Cardinality(Active) < MaxConcurrency)
    BY <1>1, <2>3, <2>4 DEF CanStart
  <2>6. \A u \in Active : u \in Indices /\ u < t
    <3> SUFFICES ASSUME NEW u \in Active PROVE u \in Indices /\ u < t
      OBVIOUS
    <3>1. u \in Indices /\ child[u] # "queued"
      BY DEF Active, Calling
    <3> QED BY <2>1, <2>2, <3>1, TimeNumbers DEF Indices
  <2>7. PICK u \in Active : u + MaxConcurrency <= t
    <3> SUFFICES ASSUME \A u \in Active : ~ (u + MaxConcurrency <= t) PROVE FALSE
      OBVIOUS
    <3> DEFINE batch == (t - MaxConcurrency + 1) .. (t - 1)
    <3>1. Active \in SUBSET batch
      BY <2>2, <2>6, TimeNumbers DEF Indices
    <3>2. IsFiniteSet(batch) /\ Cardinality(batch) = MaxConcurrency - 1
      <4>1. /\ MaxConcurrency \in Nat \ {0} /\ t \in Nat
            /\ t - MaxConcurrency + 1 \in Int /\ t - 1 \in Int
        BY <2>2, TimeNumbers
      <4>2. (t - 1) - (t - MaxConcurrency + 1) + 1 = MaxConcurrency - 1
        BY <4>1
      <4>3. t - MaxConcurrency + 1 > t - 1 => MaxConcurrency - 1 = 0
        BY <4>1
      <4> QED BY <4>1, <4>2, <4>3, FS_Interval
    <3> HIDE DEF batch
    <3>3. Cardinality(Active) <= MaxConcurrency - 1 /\ Cardinality(Active) \in Nat
      BY <3>1, <3>2, FS_Subset, FS_CardinalityType
    <3> QED BY <2>5, <3>3, TimeNumbers
  <2>8. Start(u, call) + BatchSeconds(call) <= Start(t, call) /\ Start(t, call) \in Nat
    BY <2>2, <2>6, <2>7, StartFacts
  <2>9. Begun(t, step, call) = OtherSeconds(step, call, crashes) + Start(t, call)
    BY DEF Begun
  <2>10. /\ now' <= Begun(u, step, call) + BatchSeconds(call)
         /\ OtherSeconds(step, call, crashes) \in Nat /\ BatchSeconds(call) \in Nat
         /\ Start(u, call) \in Nat
         /\ Begun(u, step, call) = OtherSeconds(step, call, crashes) + Start(u, call)
    BY <1>4
  <2> QED BY <1>2, <2>8, <2>9, <2>10
<1>7. ASSUME NEW t \in Indices
      PROVE  \E n \in Nat :
                /\ spent'[t] = n * Interval /\ n * Interval <= Max
                /\ t \in TargetIndices' => OnTime(t, n, Begun(t, step, call), call)'
  <2>1. PICK n \in Nat :
           /\ spent[t] = n * Interval /\ n * Interval <= Max
           /\ t \in TargetIndices => OnTime(t, n, Begun(t, step, call), call)
    BY DEF TimeInv
  <2>2. child[t] \in Calling \cup {"waiting"} => now' <= wake[t]
    BY <1>2 DEF Active
  <2>3. Begun(t, step, call)' = Begun(t, step, call)
    BY <1>1 DEF Begun
  <2>4. t \in TargetIndices => OnTime(t, n, Begun(t, step, call), call)'
    BY <1>1, <1>6, <2>1, <2>2, <2>3 DEF OnTime, Calling
  <2> QED BY <1>1, <2>1, <2>4
<1> QED BY <1>1, <1>3, <1>5, <1>7 DEF TimeInv

\* A step of the handler that gets its result.
LEMMA TimeStep ==
    ASSUME NEW step \in StepSeconds, NEW call \in CallSeconds, \A s \in StepSeconds : s <= step,
           RInv, RInv', TimeInv(step, call), StepFails \/ StepSucceeds
    PROVE  TimeInv(step, call)'
<1>1. /\ pc \in Steps /\ log[pc] = "none" /\ UNCHANGED <<child, spent, crashes>>
      /\ \E result \in {"done", "failed"} : log' = [log EXCEPT ![pc] = result]
      /\ \E seconds \in StepSeconds : Takes(seconds)
  BY DEF StepFails, StepSucceeds, childVars
<1>2. /\ outcome = "running" /\ log \in [Steps -> {"none", "done", "failed"}]
      /\ now \in Nat /\ crashes \in Nat /\ step \in Nat
      /\ \A t \in Indices : child[t] = "queued"
  BY <1>1, StepNames, NoneBegun, BoundsAssumption, LimitsAssumption
     DEF RInv, EndInv, OrderInv, RunTypeOK
<1>3. PICK seconds \in StepSeconds : Takes(seconds)
  BY <1>1
<1>4. now' = now + seconds /\ seconds \in Nat /\ seconds <= step
  BY <1>3, LimitsAssumption DEF Takes
<1>5. Recorded(log') = Recorded(log) + 1
  <2>1. PICK result \in {"done", "failed"} : log' = [log EXCEPT ![pc] = result]
    BY <1>1
  <2>2. Recorded([log EXCEPT ![pc] = result]) = Recorded(log) + 1
    BY <1>1, <1>2, OneMore
  <2> QED BY <2>1, <2>2
<1>6. Recorded(log) \in Nat /\ Recorded(log) * step \in Nat
  BY RecordedNumbers
<1>7. Recorded(log') * step = Recorded(log) * step + step
  BY <1>2, <1>5, <1>6, Products
<1>8. /\ Recorded(log') * step <= 5 * step /\ crashes * (step + call) \in Nat
      /\ OtherSeconds(step, call, crashes) = 5 * step + crashes * (step + call)
  BY <1>2, RecordedNumbers, OtherNumbers
<1>9. now <= Recorded(log) * step + crashes * (step + call)
  BY <1>2 DEF TimeInv
<1>10. now' <= Recorded(log') * step + crashes * (step + call)
  BY <1>2, <1>4, <1>6, <1>7, <1>8, <1>9
<1>11. now' <= OtherSeconds(step, call, crashes)
  BY <1>2, <1>4, <1>6, <1>7, <1>8, <1>10
<1> QED BY <1>1, <1>2, <1>10, <1>11, TimeOfSteps

\* The service cuts a run: at once when the limit is reached, or in a step of the
\* handler that would go past it.
LEMMA TimeCut ==
    ASSUME NEW step \in StepSeconds, NEW call \in CallSeconds, \A s \in StepSeconds : s <= step,
           RInv, RInv', TimeInv(step, call), TimeOut
    PROVE  TimeInv(step, call)'
<1>1. /\ UNCHANGED <<child, spent, wake, crashes, log, targets>>
      /\ now' = ExecutionTimeout /\ outcome = "running" /\ outcome' = "timed-out"
      /\ now \in Nat /\ ExecutionTimeout \in Nat /\ crashes \in Nat /\ step \in Nat
  BY BoundsAssumption, LimitsAssumption DEF TimeOut, stepVars, childVars, RInv, RunTypeOK
<1>2. CASE now >= ExecutionTimeout
  <2>1. now' <= now /\ Batches' = Batches /\ TargetIndices' = TargetIndices
    BY <1>1, <1>2 DEF Batches, TargetIndices
  <2>2. ASSUME NEW t \in Indices, NEW n \in Nat, OnTime(t, n, Begun(t, step, call), call)
        PROVE  OnTime(t, n, Begun(t, step, call), call)'
    <3>1. wake[t] \in Nat
      BY DEF RInv, RunTypeOK
    <3>2. Begun(t, step, call) \in Nat
      BY <1>1, OtherNumbers, StartFacts DEF Begun
    <3>3. Begun(t, step, call)' = Begun(t, step, call)
      BY <1>1 DEF Begun
    <3> HIDE DEF Begun
    <3> QED BY <1>1, <2>1, <2>2, <3>1, <3>2, <3>3 DEF OnTime
  <2>3. now' <= RunSeconds(step, call, Batches, crashes)
    <3>1. Batches \in Nat
      BY BatchesNumber, BoundsAssumption DEF RInv, RunTypeOK
    <3>2. RunSeconds(step, call, Batches, crashes) \in Nat
      BY <1>1, <3>1, RunNumbers
    <3> QED BY <1>1, <2>1, <3>2 DEF TimeInv
  <2>4. ASSUME NEW t \in Indices
        PROVE  \E n \in Nat :
                  /\ spent'[t] = n * Interval /\ n * Interval <= Max
                  /\ t \in TargetIndices' => OnTime(t, n, Begun(t, step, call), call)'
    <3>1. PICK n \in Nat :
             /\ spent[t] = n * Interval /\ n * Interval <= Max
             /\ t \in TargetIndices => OnTime(t, n, Begun(t, step, call), call)
      BY DEF TimeInv
    <3> QED BY <1>1, <2>1, <2>2, <3>1
  <2> QED BY <1>1, <2>1, <2>3, <2>4 DEF TimeInv
<1>3. CASE AtStep /\ \E seconds \in StepSeconds : now + seconds > ExecutionTimeout
  <2>1. PICK seconds \in StepSeconds : now + seconds > ExecutionTimeout
    BY <1>3
  <2>2. seconds \in Nat /\ seconds <= step
    BY LimitsAssumption
  <2>3. /\ pc \in Steps /\ log[pc] = "none" /\ log \in [Steps -> {"none", "done", "failed"}]
        /\ \A t \in Indices : child[t] = "queued"
    BY <1>3, NoneBegun DEF AtStep, RInv, OrderInv, RunTypeOK
  <2> DEFINE after == [log EXCEPT ![pc] = "done"]
  <2>4. Recorded(after) = Recorded(log) + 1
    BY <2>3, OneMore
  <2>5. /\ Recorded(log) \in Nat /\ Recorded(log) * step \in Nat
        /\ Recorded(after) * step <= 5 * step
    BY RecordedNumbers
  <2> HIDE DEF after
  <2>6. Recorded(after) * step = Recorded(log) * step + step
    BY <1>1, <2>4, <2>5, Products
  <2>7. /\ crashes * (step + call) \in Nat
        /\ OtherSeconds(step, call, crashes) = 5 * step + crashes * (step + call)
    BY <1>1, OtherNumbers
  <2>8. now <= Recorded(log) * step + crashes * (step + call)
    BY <1>1, <2>3 DEF TimeInv
  <2>9. now' <= OtherSeconds(step, call, crashes)
    BY <1>1, <2>1, <2>2, <2>5, <2>6, <2>7, <2>8
  <2> QED BY <1>1, <2>3, <2>9, TimeOfSteps
<1> QED BY <1>2, <1>3 DEF TimeOut

\* The invocation dies: a step of the handler, or a call of each child, is made again.
LEMMA TimeCrash ==
    ASSUME NEW step \in StepSeconds, NEW call \in CallSeconds,
           \A s \in StepSeconds : s <= step, \A s \in CallSeconds : s <= call,
           RInv, RInv', TimeInv(step, call), CrashRun
    PROVE  TimeInv(step, call)'
<1>1. /\ UNCHANGED <<child, spent, log, targets>> /\ crashes' = crashes + 1
      /\ outcome = "running" /\ outcome' = "running"
      /\ now \in Nat /\ crashes \in Nat /\ step \in Nat /\ call \in Nat
  BY BoundsAssumption, LimitsAssumption DEF CrashRun, stepVars, RInv, RunTypeOK
<1>2. /\ crashes * (step + call) \in Nat /\ OtherSeconds(step, call, crashes) \in Nat
      /\ OtherSeconds(step, call, crashes) = 5 * step + crashes * (step + call)
      /\ (crashes + 1) * (step + call) = crashes * (step + call) + step + call
      /\ OtherSeconds(step, call, crashes + 1)
           = OtherSeconds(step, call, crashes) + step + call
  BY <1>1, OtherNumbers
<1>3. Recorded(log) * step \in Nat /\ Recorded(log) * step <= 5 * step
  BY RecordedNumbers
<1>4. (\A t \in Indices : child[t] = "queued")
         => now <= Recorded(log) * step + crashes * (step + call)
  BY <1>1 DEF TimeInv
<1>5. CASE AtStep
  <2>1. \A t \in Indices : child[t] = "queued"
    BY <1>5, NoneBegun DEF AtStep, RInv, OrderInv
  <2>2. PICK seconds \in StepSeconds : \E lost \in 0 .. seconds : Takes(lost)
    BY <1>5 DEF CrashRun
  <2>3. now' <= now + step /\ now' \in Nat
    BY <1>1, <2>2, LimitsAssumption DEF Takes
  <2>4. now' <= Recorded(log) * step + (crashes + 1) * (step + call)
    BY <1>1, <1>2, <1>3, <1>4, <2>1, <2>3
  <2>5. now' <= OtherSeconds(step, call, crashes + 1)
    BY <1>1, <1>2, <1>3, <1>4, <2>1, <2>3
  <2> QED BY <1>1, <2>1, <2>4, <2>5, TimeOfSteps
<1>6. CASE ~ AtStep
  <2>1. now' = now /\ Batches' = Batches /\ TargetIndices' = TargetIndices
    BY <1>1, <1>6 DEF CrashRun, Batches, TargetIndices
  <2>2. PICK again \in [Indices -> CallSeconds] :
           wake' = [t \in Indices |->
                       IF child[t] \in Calling THEN now + again[t] ELSE wake[t]]
    BY DEF CrashRun
  <2>3. ASSUME NEW t \in Indices
        PROVE  \E n \in Nat :
                  /\ spent'[t] = n * Interval /\ n * Interval <= Max
                  /\ t \in TargetIndices' => OnTime(t, n, Begun(t, step, call), call)'
    <3>1. PICK n \in Nat :
             /\ spent[t] = n * Interval /\ n * Interval <= Max
             /\ t \in TargetIndices => OnTime(t, n, Begun(t, step, call), call)
      BY DEF TimeInv
    <3> DEFINE begun == Begun(t, step, call)
               later == OtherSeconds(step, call, crashes + 1) + Start(t, call)
    <3>2. begun \in Nat /\ later = begun + step + call
      BY <1>1, <1>2, StartFacts DEF Begun
    <3>3. Begun(t, step, call)' = later
      BY <1>1 DEF Begun
    <3>4. again[t] \in Nat /\ again[t] <= call /\ wake[t] \in Nat
      BY LimitsAssumption DEF RInv, RunTypeOK
    <3>5. /\ child[t] \in Calling => wake'[t] = now + again[t]
          /\ child[t] \notin Calling => wake'[t] = wake[t]
      BY <2>2
    <3>6. n * Turn(call) \in Nat /\ (n + 1) * Turn(call) \in Nat
      BY TimeNumbers, Products
    <3> HIDE DEF begun, later
    <3>7. ASSUME t \in TargetIndices PROVE OnTime(t, n, Begun(t, step, call), call)'
      <4>1. OnTime(t, n, begun, call)
        BY <3>1, <3>7 DEF begun
      <4>2. CASE child[t] = "queued"
        BY <1>1, <2>1, <3>2, <3>3, <4>1, <4>2 DEF OnTime
      <4>3. CASE child[t] = "checking"
        BY <1>1, <2>1, <3>2, <3>3, <3>4, <3>5, <3>6, <4>1, <4>3 DEF OnTime, Calling
      <4>4. CASE child[t] = "waiting"
        BY <1>1, <2>1, <3>2, <3>3, <3>4, <3>5, <3>6, <4>1, <4>4 DEF OnTime, Calling
      <4>5. CASE child[t] \in {"posting", "noticing"}
        BY <1>1, <2>1, <3>2, <3>3, <3>4, <3>5, <3>6, <4>1, <4>5 DEF OnTime, Calling
      <4> QED BY <1>1, <4>2, <4>3, <4>4, <4>5 DEF OnTime
    <3> QED BY <1>1, <2>1, <3>1, <3>7
  <2>4. now' <= RunSeconds(step, call, Batches, crashes + 1)
    <3>1. Batches \in Nat /\ crashes + 1 \in Nat
      BY <1>1, BatchesNumber, BoundsAssumption DEF RInv, RunTypeOK
    <3>2. /\ Batches * BatchSeconds(call) \in Nat
          /\ RunSeconds(step, call, Batches, crashes)
               = OtherSeconds(step, call, crashes) + Batches * BatchSeconds(call)
          /\ RunSeconds(step, call, Batches, crashes + 1)
               = OtherSeconds(step, call, crashes + 1) + Batches * BatchSeconds(call)
      BY <1>1, <3>1, RunNumbers
    <3>3. now <= RunSeconds(step, call, Batches, crashes)
      BY DEF TimeInv
    <3> QED BY <1>1, <1>2, <2>1, <3>2, <3>3
  <2>5. (\A t \in Indices : child[t] = "queued")
           => now' <= Recorded(log) * step + (crashes + 1) * (step + call)
    BY <1>1, <1>2, <1>3, <1>4, <2>1
  <2> QED BY <1>1, <2>1, <2>3, <2>4, <2>5 DEF TimeInv
<1> QED BY <1>5, <1>6

LEMMA TimeStepInv ==
    ASSUME NEW step \in StepSeconds, NEW call \in CallSeconds,
           \A s \in StepSeconds : s <= step, \A s \in CallSeconds : s <= call,
           RInv, RInv', TimeInv(step, call), [RunNext]_runVars
    PROVE  TimeInv(step, call)'
<1>1. CASE ChildStep
  BY <1>1, TimeChild DEF ChildStep
<1>2. CASE Advance
  BY <1>2, TimeAdvance
<1>3. CASE StepFails \/ StepSucceeds
  BY <1>3, TimeStep
<1>4. CASE TimeOut
  BY <1>4, TimeCut
<1>5. CASE CrashRun
  BY <1>5, TimeCrash
<1>6. CASE Validate \/ ReplayStep \/ Finalize \/ Rethrow \/ LoseParent \/ Ended
           \/ UNCHANGED runVars
  <2>1. UNCHANGED <<childVars, now, log, targets, crashes>>
    BY <1>6 DEF Validate, ReplayStep, Finalize, Rethrow, LoseParent, Ended, runVars, stepVars
  <2>2. outcome # "running" => outcome' = outcome
    BY StepKeepsProgress DEF ProgressIsKept
  <2> QED BY <2>1, <2>2, TimeKept
<1> QED BY <1>1, <1>2, <1>3, <1>4, <1>5, <1>6 DEF RunNext, HandlerStep

\* All of it, when there is a longest step and a longest call.
InTime ==
    \A step \in StepSeconds, call \in CallSeconds :
        (\A s \in StepSeconds : s <= step) /\ (\A s \in CallSeconds : s <= call)
            => TimeInv(step, call)

LEMMA InTimeInvariant == RunSpec => []InTime
<1>1. RunInit => InTime
  BY TimeInitInv DEF InTime
<1>2. RInv /\ RInv' /\ InTime /\ [RunNext]_runVars => InTime'
  BY TimeStepInv DEF InTime
<1> QED BY <1>1, <1>2, RunInvariant, PTL DEF RunSpec

\* For any number of targets, places and dead invocations, any wait settings and any
\* duration of a step and of a call: a run takes no longer than its steps, its
\* batches, one after the other, and what was done again.
THEOREM RunTimeIsBounded == RunSpec => []RunTimeBounded
<1>1. InTime => RunTimeBounded
  BY DEF InTime, TimeInv, RunTimeBounded
<1> QED BY <1>1, InTimeInvariant, PTL

-------------------------------------------------------------------------------
(* The execution timeout. *)

\* Time never goes past the limit, and a run is only cut at the limit.
CutInv ==
    /\ now <= ExecutionTimeout
    /\ outcome = "timed-out" => now >= ExecutionTimeout

\* A step of the handler that is cut leaves time within the limit.
LEMMA CrashTime ==
    ASSUME RInv, CutInv, CrashRun
    PROVE  now' <= ExecutionTimeout
<1>1. CASE AtStep
  BY <1>1 DEF CrashRun, Takes
<1>2. CASE ~ AtStep
  BY <1>2 DEF CrashRun, CutInv
<1> QED BY <1>1, <1>2

LEMMA CutStepInv == RInv /\ CutInv /\ [RunNext]_runVars => CutInv'
<1> SUFFICES ASSUME RInv, CutInv, [RunNext]_runVars PROVE CutInv'
  OBVIOUS
<1>1. CASE HandlerStep
  <2>1. now' = now \/ now' <= ExecutionTimeout
    BY <1>1 DEF HandlerStep, Validate, ReplayStep, StepFails, StepSucceeds, Finalize, Rethrow, Takes
  <2>2. outcome' = "timed-out" => outcome = "timed-out"
    <3>1. CASE Validate \/ StepFails \/ Finalize \/ Rethrow
      BY <3>1 DEF Validate, StepFails, Finalize, Rethrow, FailRun, ReturnFromRun, GoTo
    <3>2. CASE ReplayStep \/ StepSucceeds
      <4>1. FailRun \/ (pc \in Steps /\ \E n : After(pc, n))
        BY <3>2 DEF ReplayStep, StepSucceeds
      <4> QED BY <4>1 DEF After, FailRun, ReturnFromRun, GoTo, Steps
    <3> QED BY <1>1, <3>1, <3>2 DEF HandlerStep
  <2>3. outcome # "timed-out"
    BY <1>1, StepNames
       DEF HandlerStep, Validate, ReplayStep, StepFails, StepSucceeds, Finalize, Rethrow, RInv, EndInv
  <2> QED BY <2>1, <2>2, <2>3 DEF CutInv
<1>2. CASE ChildStep
  <2>1. UNCHANGED <<now, outcome>>
    BY <1>2, ChildStepCases DEF ChildStep
  <2> QED BY <2>1 DEF CutInv
<1>3. CASE Advance
  <2>1. outcome' = outcome /\ outcome # "timed-out" /\ now' <= ExecutionTimeout
    BY <1>3 DEF Advance, Idle, RInv, EndInv
  <2> QED BY <2>1 DEF CutInv
<1>4. CASE TimeOut
  BY <1>4, LimitsAssumption DEF TimeOut, CutInv
<1>5. CASE CrashRun
  BY <1>5, CrashTime DEF CrashRun, CutInv
<1>6. CASE LoseParent \/ Ended \/ UNCHANGED runVars
  BY <1>6 DEF LoseParent, Ended, runVars, CutInv
<1> QED BY <1>1, <1>2, <1>3, <1>4, <1>5, <1>6 DEF RunNext

LEMMA CutInvariant == RunSpec => []CutInv
<1>1. RunInit => CutInv
  BY LimitsAssumption DEF RunInit, CutInv
<1> QED BY <1>1, CutStepInv, RunInvariant, PTL DEF RunSpec

\* No more batches than the targets fill.
LEMMA BatchCount ==
    ASSUME targets \in Nat, NEW n \in Nat, targets <= n * MaxConcurrency
    PROVE  Batches <= n
<1> DEFINE m == MaxConcurrency
           b == (targets + m - 1) \div m
<1>1. m \in Nat \ {0} /\ targets + m - 1 \in Nat
  BY LimitsAssumption
<1>2. b \in Nat /\ b * m <= targets + m - 1
  BY <1>1, Division
<1>3. Batches = b /\ targets <= n * m
  BY DEF Batches
<1> HIDE DEF b, m
<1>4. (n + 1) * m = n * m + m /\ n * m \in Nat /\ (n + 1) * m \in Nat /\ b * m \in Nat
  BY <1>1, <1>2
<1>5. b * m < (n + 1) * m
  BY <1>1, <1>2, <1>3, <1>4
<1>6. b < n + 1
  BY <1>1, <1>2, <1>5, FewerTimes
<1> QED BY <1>2, <1>3, <1>6

\* Fewer batches and fewer deaths take less time.
LEMMA RunGrows ==
    ASSUME NEW step \in StepSeconds, NEW call \in CallSeconds,
           NEW a \in Nat, NEW b \in Nat, NEW c \in Nat, NEW d \in Nat, a <= b, c <= d
    PROVE  RunSeconds(step, call, a, c) <= RunSeconds(step, call, b, d)
<1>1. step \in Nat /\ step + call \in Nat /\ BatchSeconds(call) \in Nat
  BY TimeNumbers
<1>2. /\ a * BatchSeconds(call) <= b * BatchSeconds(call)
      /\ c * (step + call) <= d * (step + call)
  BY <1>1, Products
<1>3. /\ a * BatchSeconds(call) \in Nat /\ b * BatchSeconds(call) \in Nat
      /\ c * (step + call) \in Nat /\ d * (step + call) \in Nat
  BY <1>1, Products
<1> QED BY <1>1, <1>2, <1>3 DEF RunSeconds, OtherSeconds

\* A run that is cut has more than n batches, when n of them fit with all its deaths.
LEMMA PastTheLimit ==
    ASSUME RInv, InTime, CutInv, outcome = "timed-out",
           NEW n \in Nat, NEW deaths \in Nat, crashes <= deaths,
           \A step \in StepSeconds, call \in CallSeconds :
               RunSeconds(step, call, n, deaths) < ExecutionTimeout,
           Batches <= n
    PROVE  FALSE
<1>1. /\ now >= ExecutionTimeout /\ now \in Nat /\ crashes \in Nat /\ ExecutionTimeout \in Nat
  BY BoundsAssumption, LimitsAssumption DEF CutInv, RInv, RunTypeOK
<1>2. Batches \in Nat
  BY BatchesNumber, BoundsAssumption DEF RInv, RunTypeOK
<1>3. PICK step \in StepSeconds, call \in CallSeconds :
         (\A s \in StepSeconds : s <= step) /\ (\A s \in CallSeconds : s <= call)
  BY LimitsAssumption
<1>4. now <= RunSeconds(step, call, Batches, crashes)
  BY <1>3 DEF InTime, TimeInv
<1>5. RunSeconds(step, call, Batches, crashes) <= RunSeconds(step, call, n, deaths)
  BY <1>1, <1>2, RunGrows
<1>6. RunSeconds(step, call, Batches, crashes) \in Nat /\ RunSeconds(step, call, n, deaths) \in Nat
  BY <1>1, <1>2, RunNumbers
<1> QED BY <1>1, <1>4, <1>5, <1>6

\* For any wait settings, timeout, places, deaths and durations of the calls: a run that
\* the timeout has room for is never cut, whatever its children observe.
THEOREM OnlyLateRunsAreCut == RunSpec => []CutOnlyWhenLate
<1>1. RInv /\ InTime /\ CutInv => CutOnlyWhenLate
  <2> SUFFICES ASSUME RInv, InTime, CutInv, outcome = "timed-out", RunFits
               PROVE  FALSE
    BY DEF CutOnlyWhenLate
  <2>1. /\ Batches \in Nat /\ crashes \in Nat
        /\ \A step \in StepSeconds, call \in CallSeconds :
              RunSeconds(step, call, Batches, crashes) < ExecutionTimeout
    BY BoundsAssumption DEF RunFits, Roomy
  <2> QED BY <2>1, PastTheLimit
<1> QED BY <1>1, RunInvariant, InTimeInvariant, CutInvariant, PTL

\* As many targets as have places in the batches that fit are safe from the timeout.
LEMMA MoreThanFit ==
    ASSUME RInv, InTime, CutInv, outcome = "timed-out",
           NEW n \in Nat,
           \A step \in StepSeconds, call \in CallSeconds :
               RunSeconds(step, call, n, MaxCrashes) < ExecutionTimeout
    PROVE  targets > n * MaxConcurrency
<1>1. /\ targets \in Nat /\ n * MaxConcurrency \in Nat
      /\ MaxCrashes \in Nat /\ crashes <= MaxCrashes
  BY BoundsAssumption, LimitsAssumption, Products DEF RInv, RunTypeOK
<1>2. ~ (Batches <= n)
  BY <1>1, PastTheLimit
<1> QED BY <1>1, <1>2, BatchCount

\* For any n batches that fit in the timeout, with their turns and messages, the steps
\* before them and what MaxCrashes deaths do again: a run is only cut if it has more
\* targets than there are places in n batches.
THEOREM RoomForTargets ==
    ASSUME NEW n \in Nat,
           \A step \in StepSeconds, call \in CallSeconds :
               RunSeconds(step, call, n, MaxCrashes) < ExecutionTimeout
    PROVE  RunSpec => [](outcome = "timed-out" => targets > n * MaxConcurrency)
<1>1. RInv /\ InTime /\ CutInv => (outcome = "timed-out" => targets > n * MaxConcurrency)
  BY MoreThanFit
<1> QED BY <1>1, RunInvariant, InTimeInvariant, CutInvariant, PTL

\* What the comment of settings/consts.ts is about, with its numbers: two hours, and a
\* maximum wait of at most 6900 seconds.  When all calls of the longest child, the
\* steps before it and what is done again take less than the 300 seconds between
\* them, a run is only cut if it has more targets than places.
THEOREM WaitLimitFiresFirst ==
    ASSUME ExecutionTimeout = 7200,
           \A step \in StepSeconds, call \in CallSeconds :
               OtherSeconds(step, call, MaxCrashes) + call * (Max \div Interval + 2) < 300
    PROVE  RunSpec => [](outcome = "timed-out" => targets > MaxConcurrency)
<1>1. ASSUME NEW step \in StepSeconds, NEW call \in CallSeconds
      PROVE  RunSeconds(step, call, 1, MaxCrashes) < ExecutionTimeout
  <2>1. Max \in Nat /\ Max <= 6900 /\ MaxCrashes \in Nat
    BY WaitAssumption, BoundsAssumption DEF resolveResourceWait, MAX_WAIT_SECONDS_LIMIT
  <2>2. BatchSeconds(call) \in Nat /\ OtherSeconds(step, call, MaxCrashes) \in Nat
    BY <2>1, TimeNumbers, OtherNumbers
  <2>3. RunSeconds(step, call, 1, MaxCrashes)
          = OtherSeconds(step, call, MaxCrashes) + BatchSeconds(call)
    BY <2>2 DEF RunSeconds
  <2>4. call * (Max \div Interval + 2) \in Nat
    BY TimeNumbers, Products
  <2>5. OtherSeconds(step, call, MaxCrashes) + call * (Max \div Interval + 2) < 300
    OBVIOUS
  <2> QED BY <2>1, <2>2, <2>3, <2>4, <2>5 DEF BatchSeconds
<1>2. 1 * MaxConcurrency = MaxConcurrency
  BY LimitsAssumption
<1>3. RInv /\ InTime /\ CutInv => (outcome = "timed-out" => targets > MaxConcurrency)
  BY <1>1, <1>2, MoreThanFit
<1> QED BY <1>3, RunInvariant, InTimeInvariant, CutInvariant, PTL

\* The same with the defaults of the construct and of the handler: when no step takes
\* more than a minute, no call of a child more than ten seconds, and no more than
\* seven invocations die, three batches of ten fit in the two hours.
THEOREM DefaultsHaveRoom ==
    ASSUME Interval = 60, Max = 1800, MaxConcurrency = 10, ExecutionTimeout = 7200,
           MaxCrashes <= 7,
           \A step \in StepSeconds : step <= 60, \A call \in CallSeconds : call <= 10
    PROVE  RunSpec => [](outcome = "timed-out" => targets > 30)
<1>1. ASSUME NEW step \in StepSeconds, NEW call \in CallSeconds
      PROVE  RunSeconds(step, call, 3, MaxCrashes) < ExecutionTimeout
  <2>1. step \in Nat /\ step <= 60 /\ call \in Nat /\ call <= 10 /\ MaxCrashes \in Nat
    BY LimitsAssumption, BoundsAssumption
  <2>2. Max \div Interval = 30
    OBVIOUS
  <2>3. BatchSeconds(call) = 1800 + call * 32
    BY <2>1, <2>2 DEF BatchSeconds
  <2>4. RunSeconds(step, call, 3, MaxCrashes) <= RunSeconds(step, call, 3, 7)
    BY <2>1, RunGrows
  <2>5. RunSeconds(step, call, 3, 7) = 5 * step + 7 * (step + call) + 3 * (1800 + call * 32)
    BY <2>1, <2>3 DEF RunSeconds, OtherSeconds
  <2>6. RunSeconds(step, call, 3, MaxCrashes) \in Nat
    BY <2>1, RunNumbers
  <2> QED BY <2>1, <2>4, <2>5, <2>6
<1>2. RInv /\ InTime /\ CutInv => (outcome = "timed-out" => targets > 3 * MaxConcurrency)
  BY <1>1, MoreThanFit
<1>3. RInv /\ InTime /\ CutInv => (outcome = "timed-out" => targets > 30)
  BY <1>2
<1> QED BY <1>3, RunInvariant, InTimeInvariant, CutInvariant, PTL

-------------------------------------------------------------------------------
(* No step leads back. *)

\* A child only waits for an interval that its maximum has room for.
WaitInv == \A t \in Indices : child[t] = "waiting" => spent[t] + Interval <= Max

LEMMA PlaceValues ==
    /\ Place("validate") = 0 /\ Place("fetch-slack-secret") = 1
    /\ Place("get-target-regions") = 2 /\ Place("get-resources") = 3
    /\ Place("deduplicate-target-resources") = 4 /\ Place("post-slack-messages") = 5
    /\ Place("map") = 6 /\ Place("rethrow") = 7 /\ Place("ended") = 8
BY DEF Place

LEMMA StageValues ==
    /\ Stage("queued") = 0 /\ Stage("checking") = 1 /\ Stage("waiting") = 2
    /\ Stage("posting") = 3 /\ Stage("noticing") = 3
    /\ Stage("ok") = 4 /\ Stage("skipped") = 4 /\ Stage("failed") = 4
BY DEF Stage, Settled

LEMMA ChildLeadsOn ==
    ASSUME RInv, WaitInv, NEW t \in Indices, ChildTurn(t)
    PROVE  /\ UNCHANGED <<now, pc>> /\ MovesOn(t)
           /\ \A u \in Indices \ {t} : child'[u] = child[u] /\ spent'[u] = spent[u]
           /\ WaitInv'
<1>1. /\ child \in [Indices -> ChildStates] /\ spent \in [Indices -> Nat]
      /\ Interval \in Nat \ {0} /\ Max \in Nat
  BY WaitAssumption DEF RInv, RunTypeOK, ChildStates, resolveResourceWait
<1>2. /\ UNCHANGED <<now, pc>>
      /\ \A u \in Indices \ {t} : child'[u] = child[u] /\ spent'[u] = spent[u]
  BY ChildStepCases
<1>3. ASSUME spent' = spent, Stage(child'[t]) > Stage(child[t]),
             child'[t] = "waiting" => spent[t] + Interval <= Max
      PROVE  MovesOn(t) /\ WaitInv'
  BY <1>2, <1>3 DEF MovesOn, WaitInv
<1>4. CASE StartChild(t)
  <2>1. child[t] = "queued" /\ child'[t] = "checking" /\ spent' = spent
    BY <1>1, <1>4 DEF StartChild, CanStart, Becomes
  <2> QED BY <1>2, <1>3, <2>1, StageValues
<1>5. CASE Check(t)
  <2>1. PICK state \in {"skipped", "posting", "noticing", "ok", "failed", "waiting"},
             moment \in Nat :
           /\ Becomes(t, state, moment)
           /\ state = "waiting" => spent[t] + Interval <= Max
    BY <1>5, CheckCases
  <2>2. child[t] = "checking" /\ child'[t] = state /\ spent' = spent
    BY <1>1, <1>5, <2>1 DEF Check, Over, Becomes
  <2>3. Stage(state) > Stage("checking")
    BY StageValues
  <2> QED BY <1>2, <1>3, <2>1, <2>2, <2>3
<1>6. CASE CheckFails(t) \/ PostChild(t) \/ PostNotice(t)
  <2>1. /\ child[t] \in {"checking", "posting", "noticing"} /\ spent' = spent
        /\ child'[t] \in {"ok", "failed"}
    BY <1>1, <1>6 DEF CheckFails, PostChild, PostNotice, Over, Becomes
  <2>2. Stage(child'[t]) > Stage(child[t])
    BY <2>1, StageValues
  <2> QED BY <1>2, <1>3, <2>1, <2>2
<1>7. CASE Resume(t)
  <2>1. /\ child[t] = "waiting" /\ child'[t] = "checking"
        /\ spent' = [spent EXCEPT ![t] = spent[t] + Interval]
    BY <1>1, <1>7 DEF Resume, Over, Becomes
  <2>2. spent[t] + Interval <= Max
    BY <2>1 DEF WaitInv
  <2>3. spent'[t] = spent[t] + Interval /\ spent[t] \in Nat
    BY <1>1, <2>1
  <2>4. MovesOn(t)
    BY <1>1, <2>2, <2>3 DEF MovesOn
  <2> QED BY <1>2, <2>1, <2>4 DEF WaitInv
<1> QED BY <1>2, <1>4, <1>5, <1>6, <1>7 DEF ChildTurn

LEMMA AfterLeadsOn ==
    ASSUME pc \in Steps, NEW n, After(pc, n)
    PROVE  Place(pc') > Place(pc)
<1>1. CASE pc = "fetch-slack-secret"
  <2>1. pc' = "get-target-regions"
    BY <1>1 DEF After, GoTo
  <2> QED BY <1>1, <2>1, PlaceValues
<1>2. CASE pc = "get-target-regions"
  <2>1. pc' = "get-resources"
    BY <1>2 DEF After, GoTo
  <2> QED BY <1>2, <2>1, PlaceValues
<1>3. CASE pc = "get-resources"
  <2>1. pc' = "deduplicate-target-resources"
    BY <1>3 DEF After, GoTo
  <2> QED BY <1>3, <2>1, PlaceValues
<1>4. CASE pc = "deduplicate-target-resources"
  <2>1. pc' \in {"ended", "post-slack-messages", "map"}
    BY <1>4 DEF After, GoTo, ReturnFromRun
  <2> QED BY <1>4, <2>1, PlaceValues
<1>5. CASE pc = "post-slack-messages"
  <2>1. pc' = "map"
    BY <1>5 DEF After, GoTo
  <2> QED BY <1>5, <2>1, PlaceValues
<1> QED BY <1>1, <1>2, <1>3, <1>4, <1>5 DEF Steps

LEMMA HandlerLeadsOn ==
    ASSUME RInv, CutInv, HandlerStep
    PROVE  /\ UNCHANGED <<child, spent>> /\ now <= now' /\ now' <= ExecutionTimeout
           /\ Place(pc') > Place(pc)
<1>1. UNCHANGED <<child, spent>> /\ now <= now' /\ now' <= ExecutionTimeout
  <2>1. now \in Nat /\ now <= ExecutionTimeout
    BY DEF RInv, RunTypeOK, CutInv
  <2>2. CASE Validate \/ ReplayStep \/ Finalize \/ Rethrow
    BY <2>1, <2>2 DEF Validate, ReplayStep, Finalize, Rethrow, childVars
  <2>3. CASE StepFails \/ StepSucceeds
    <3>1. PICK seconds \in StepSeconds : Takes(seconds)
      BY <2>3 DEF StepFails, StepSucceeds
    <3>2. seconds \in Nat
      BY LimitsAssumption
    <3> QED BY <2>3, <3>1, <3>2, StepTime DEF StepFails, StepSucceeds, childVars
  <2> QED BY <2>2, <2>3 DEF HandlerStep
<1>2. CASE Validate
  <2>1. pc = "validate" /\ pc' \in {"rethrow", "get-target-regions", "fetch-slack-secret"}
    BY <1>2 DEF Validate, FailRun, GoTo
  <2> QED BY <1>1, <2>1, PlaceValues
<1>3. CASE ReplayStep \/ StepFails \/ StepSucceeds
  <2>1. pc \in Steps
    BY <1>3 DEF ReplayStep, StepFails, StepSucceeds
  <2>2. FailRun \/ \E n : After(pc, n)
    BY <1>3 DEF ReplayStep, StepFails, StepSucceeds
  <2>3. CASE FailRun
    <3>1. pc' = "rethrow"
      BY <2>3 DEF FailRun
    <3>2. Place(pc) \in 1 .. 5
      BY <2>1, PlaceValues DEF Steps
    <3> QED BY <1>1, <3>1, <3>2, PlaceValues
  <2>4. CASE \E n : After(pc, n)
    BY <1>1, <2>1, <2>4, AfterLeadsOn
  <2> QED BY <2>2, <2>3, <2>4
<1>4. CASE Finalize \/ Rethrow
  <2>1. \/ pc = "map" /\ pc' \in {"rethrow", "ended"}
        \/ pc = "rethrow" /\ pc' = "ended"
    BY <1>4 DEF Finalize, Rethrow, FailRun, ReturnFromRun
  <2> QED BY <1>1, <2>1, PlaceValues
<1> QED BY <1>1, <1>2, <1>3, <1>4 DEF HandlerStep

LEMMA AdvanceLeadsOn ==
    ASSUME RInv, Advance
    PROVE  now' > now /\ now <= now' /\ now' <= ExecutionTimeout /\ UNCHANGED <<child, spent>>
<1>1. /\ \A t \in Active : wake[t] > now
      /\ now < ExecutionTimeout /\ UNCHANGED <<child, spent>>
  BY DEF Advance, Idle, childVars
<1>2. PICK moment \in {wake[t] : t \in Active} \cup {ExecutionTimeout} :
         moment <= ExecutionTimeout /\ now' = moment
  BY DEF Advance
<1>3. now \in Nat /\ now' \in Nat
  BY <1>2, LimitsAssumption DEF RInv, RunTypeOK, Active
<1> QED BY <1>1, <1>2, <1>3

LEMMA RunStepLeadsOn ==
    RInv /\ WaitInv /\ CutInv /\ [RunNext]_runVars => WaitInv' /\ [LeadsOn]_runVars
<1> SUFFICES ASSUME RInv, WaitInv, CutInv, [RunNext]_runVars
             PROVE  WaitInv' /\ [LeadsOn]_runVars
  OBVIOUS
<1>1. CASE HandlerStep
  BY <1>1, HandlerLeadsOn DEF WaitInv, LeadsOn
<1>2. CASE ChildStep
  BY <1>2, ChildLeadsOn DEF ChildStep, LeadsOn
<1>3. CASE Advance
  BY <1>3, AdvanceLeadsOn DEF WaitInv, LeadsOn
<1>4. CASE LoseParent
  BY <1>4, BoundsAssumption DEF LoseParent, childVars, WaitInv, LeadsOn, RInv, RunTypeOK
<1>5. CASE CrashRun
  BY <1>5, BoundsAssumption DEF CrashRun, WaitInv, LeadsOn, RInv, RunTypeOK
<1>6. CASE TimeOut
  <2>1. /\ pc # "ended" /\ pc' = "ended" /\ UNCHANGED <<child, spent>>
        /\ now <= now' /\ now' <= ExecutionTimeout
    BY <1>6, LimitsAssumption DEF TimeOut, childVars, RInv, EndInv, CutInv
  <2>2. Place(pc') > Place(pc)
    BY <2>1, PlaceValues DEF RInv, RunTypeOK, Steps
  <2> QED BY <2>1, <2>2 DEF WaitInv, LeadsOn
<1>7. CASE Ended \/ UNCHANGED runVars
  BY <1>7 DEF Ended, runVars, childVars, WaitInv
<1> QED BY <1>1, <1>2, <1>3, <1>4, <1>5, <1>6, <1>7 DEF RunNext

\* With any number of targets, crashes and messages posted again: every step of a
\* run keeps what the run has and leads on, so a run has no infinite behaviour but
\* one that stops taking steps.
THEOREM RunAlwaysLeadsOn == RunSpec => EveryStepLeadsOn
<1>1. RunInit => WaitInv
  BY DEF RunInit, WaitInv
<1>2. RInv /\ WaitInv /\ CutInv /\ [RunNext]_runVars
        => WaitInv' /\ [ProgressIsKept /\ LeadsOn]_runVars
  BY RunStepLeadsOn, StepKeepsProgress
<1> QED BY <1>1, <1>2, RunInvariant, CutInvariant, PTL DEF RunSpec, EveryStepLeadsOn

-------------------------------------------------------------------------------
(* Each child implements ChildControl. *)

\* What ChildControl sees of child t.
limitsOfRun == [interval |-> Interval, max |-> Max, slack |-> config.slack = "on"]
stageOf(t)  == IF child[t] \in {"queued", "noticing"} THEN "checking" ELSE child[t]
mappedChild == <<limitsOfRun, stageOf(Watched), spent[Watched]>>

LEMMA LimitValues ==
    /\ limitsOfRun.interval = Interval /\ limitsOfRun.max = Max
    /\ limitsOfRun.slack <=> config.slack = "on"
BY DEF limitsOfRun

LEMMA ChildInitMaps == RunInit => Child!ChildInit
<1> SUFFICES ASSUME RunInit PROVE Child!ChildInit
  OBVIOUS
<1>1. Interval \in Nat \ {0} /\ Max \in Nat
  BY WaitAssumption DEF resolveResourceWait
<1>2. (config.slack = "on") \in BOOLEAN
  OBVIOUS
<1>3. child[Watched] = "queued" /\ spent[Watched] = 0
  BY WatchedAssumption DEF RunInit
<1> QED BY <1>1, <1>2, <1>3 DEF Child!ChildInit

\* A turn of the watched child is one of ChildControl; waiting for a place is none, and
\* a turn that ends in the notice of a timeout goes on until the notice is posted.
LEMMA WatchedMaps ==
    ASSUME RInv, ChildTurn(Watched)
    PROVE  Child!ChildNext \/ UNCHANGED mappedChild
<1> USE WatchedAssumption
<1>1. /\ child \in [Indices -> ChildStates] /\ spent \in [Indices -> Nat]
      /\ UNCHANGED limitsOfRun
  BY ChildStepCases DEF RInv, RunTypeOK, ChildStates, limitsOfRun
<1>2. CASE StartChild(Watched)
  <2>1. child[Watched] = "queued" /\ child'[Watched] = "checking" /\ spent' = spent
    BY <1>1, <1>2 DEF StartChild, CanStart, Becomes
  <2> QED BY <1>1, <2>1 DEF mappedChild, stageOf
<1>3. CASE Check(Watched)
  <2>1. PICK state \in {"skipped", "posting", "noticing", "ok", "failed", "waiting"},
             moment \in Nat :
           /\ Becomes(Watched, state, moment)
           /\ state = "waiting" => spent[Watched] + Interval <= Max
           /\ state = "ok" => config.slack # "on"
           /\ state = "posting" => config.slack = "on"
    BY <1>3, CheckCases
  <2>2. /\ spent' = spent /\ child[Watched] = "checking" /\ child'[Watched] = state
    BY <1>1, <1>3, <2>1 DEF Check, Over, Becomes
  <2>3. CASE state = "noticing"
    BY <1>1, <2>2, <2>3 DEF mappedChild, stageOf
  <2>4. CASE state # "noticing"
    BY <1>1, <2>1, <2>2, <2>4, LimitValues
       DEF limitsOfRun, Child!ChildNext, Child!Pause, Child!Announce, Child!Return, Child!Throw
  <2> QED BY <2>3, <2>4
<1>4. CASE CheckFails(Watched) \/ PostNotice(Watched)
  <2>1. /\ child[Watched] \in {"checking", "noticing"} /\ child'[Watched] = "failed"
        /\ spent' = spent
    BY <1>1, <1>4 DEF CheckFails, PostNotice, Over, Becomes
  <2> QED BY <1>1, <2>1 DEF limitsOfRun, Child!ChildNext, Child!Throw
<1>5. CASE Resume(Watched)
  <2>1. /\ child[Watched] = "waiting" /\ child'[Watched] = "checking"
        /\ spent'[Watched] = spent[Watched] + Interval
    BY <1>1, <1>5 DEF Resume, Over, Becomes
  <2> QED BY <1>1, <2>1, LimitValues DEF limitsOfRun, Child!ChildNext, Child!Resume
<1>6. CASE PostChild(Watched)
  <2>1. child[Watched] = "posting" /\ child'[Watched] \in {"ok", "failed"} /\ spent' = spent
    BY <1>1, <1>6 DEF PostChild, Over, Becomes
  <2> QED BY <1>1, <2>1 DEF limitsOfRun, Child!ChildNext, Child!Return, Child!Throw
<1> QED BY <1>2, <1>3, <1>4, <1>5, <1>6 DEF ChildTurn

LEMMA RunStepMapsChild == RInv /\ [RunNext]_runVars => [Child!ChildNext]_mappedChild
<1> SUFFICES ASSUME RInv, [RunNext]_runVars
             PROVE  Child!ChildNext \/ UNCHANGED mappedChild
  OBVIOUS
<1>1. UNCHANGED <<config, child, spent>> => UNCHANGED mappedChild
  BY DEF mappedChild, limitsOfRun, stageOf
<1>2. ASSUME NEW t \in Indices, t # Watched, ChildTurn(t)
      PROVE  UNCHANGED mappedChild
  <2>1. UNCHANGED <<config, child[Watched], spent[Watched]>>
    BY <1>2, ChildStepCases, WatchedAssumption
  <2> QED BY <2>1 DEF mappedChild, limitsOfRun, stageOf
<1>3. CASE ChildStep
  BY <1>2, <1>3, WatchedMaps DEF ChildStep
<1>4. CASE HandlerStep
  BY <1>1, <1>4
  DEF HandlerStep, Validate, ReplayStep, StepFails, StepSucceeds, Finalize, Rethrow, childVars
<1>5. CASE LoseParent \/ Advance \/ TimeOut \/ CrashRun \/ Ended \/ UNCHANGED runVars
  BY <1>1, <1>5 DEF LoseParent, Advance, TimeOut, CrashRun, Ended, runVars, childVars
<1> QED BY <1>3, <1>4, <1>5 DEF RunNext

\* For any number of targets, places and crashes: each child of a run is a child
\* context in the sense of ChildControl.
THEOREM ChildrenAreControlled == RunSpec => ChildIsControlled
<1>1. RInv /\ [RunNext]_runVars => [Child!ChildNext]_(Child!controlVars)
  <2>1. UNCHANGED mappedChild => UNCHANGED Child!controlVars
    BY DEF mappedChild, limitsOfRun, stageOf, Child!controlVars
  <2> QED BY <2>1, RunStepMapsChild
<1> QED BY <1>1, ChildInitMaps, RunInvariant, PTL
        DEF RunSpec, ChildIsControlled, Child!ChildSpec
===============================================================================
