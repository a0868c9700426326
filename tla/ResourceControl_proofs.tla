------------------------ MODULE ResourceControl_proofs ------------------------
(***************************************************************************)
(* ResourceProcessing implements ResourceControl: with crashes,            *)
(* suspensions and replays, the durable loop still does what one           *)
(* uninterrupted watch of the resource would do.                           *)
(***************************************************************************)
EXTENDS ResourceProcessing_proofs, FiniteSetTheorems

USE DEF StepKey, Absent

\* What the log tells when n is its newest iteration, before its wait.
LEMMA LogAt ==
    ASSUME NEW log, NEW ws, NEW n \in Nat, DOMAIN log = 0 .. n, ws = 0 .. (n - 1)
    PROVE  /\ SeenIn(log) = log[n]
           /\ ~ (DOMAIN log \subseteq ws)
           /\ Cardinality(ws) = n
<1>1. n \in DOMAIN log /\ n \notin ws /\ \A i \in DOMAIN log : i <= n
  OBVIOUS
<1>2. \A m \in DOMAIN log : (\A i \in DOMAIN log : i <= m) => m = n
  <2> SUFFICES ASSUME NEW m \in DOMAIN log, \A i \in DOMAIN log : i <= m
               PROVE  m = n
    OBVIOUS
  <2>1. n <= m /\ m <= n /\ m \in Int
    BY <1>1
  <2> QED BY <2>1
<1>3. (CHOOSE m \in DOMAIN log : \A i \in DOMAIN log : i <= m) = n
  BY <1>1, <1>2
<1>4. SeenIn(log) = log[n]
  BY <1>1, <1>3 DEF SeenIn
<1>5. Cardinality(ws) = n
  BY FS_Interval
<1> QED BY <1>1, <1>4, <1>5

\* The mapped state when all n iterations so far were waited for.
LEMMA MappedBefore ==
    ASSUME IInv, pc = "describe", iteration \notin DOMAIN described
    PROVE  /\ DOMAIN described = 0 .. (iteration - 1)
           /\ waits = 0 .. (iteration - 1)
           /\ Rested
           /\ Spent = iteration * params.interval
<1>1. iteration \in Nat /\ \A j \in 0 .. (iteration - 1) : j \in waits
  BY DEF IInv, TypeOK, LocalInv
<1>2. \A j \in waits : j \in DOMAIN described
  BY DEF IInv, LogInv, ReadyToWait, PausesAt
<1>3. \A i \in DOMAIN described : i \in 0 .. (iteration - 1)
  BY <1>1, <1>2 DEF IInv, LogInv, TypeOK
<1>4. DOMAIN described = 0 .. (iteration - 1)
  BY <1>1, <1>2, <1>3
<1>5. waits = 0 .. (iteration - 1)
  BY <1>1, <1>2, <1>3
<1>6. Rested
  BY <1>4, <1>5 DEF Rested
<1>7. Cardinality(waits) = iteration
  BY <1>1, <1>5, FS_Interval
<1> QED BY <1>4, <1>5, <1>6, <1>7 DEF Spent

\* Both modules use the vocabulary of RunningScheduleWait.
LEMMA SameVocabulary ==
    /\ Control!Modes = Modes
    /\ Control!TRANSITIONING_STATES = TRANSITIONING_STATES
    /\ \A m : Control!SourceOf(m) = SourceOf(m) /\ Control!TargetOf(m) = TargetOf(m)
BY DEF Modes, Control!Modes, TRANSITIONING_STATES, Control!TRANSITIONING_STATES,
   SourceOf, Control!SourceOf, TargetOf, Control!TargetOf

mapped == <<params, status, Seen, Rested, Spent, settled>>

\* The mapped state depends on the log only.
LEMMA MappedUnchanged ==
    UNCHANGED <<params, status, described, waits, settled>> => UNCHANGED mapped
BY DEF mapped, Seen, Rested, Spent

\* The resource before its first step is a watch before its first look.
LEMMA InitMaps == Init => Control!ControlInit
<1> SUFFICES ASSUME Init PROVE Control!ControlInit
  OBVIOUS
<1>1. DOMAIN described = {} /\ waits = {}
  BY DEF Init, EmptyLog
<1>2. Seen = Absent
  BY <1>1 DEF Seen, SeenIn
<1>3. Rested = TRUE
  <2>1. Rested
    BY <1>1 DEF Rested
  <2> QED BY <2>1, Zenon DEF Rested
<1>4. params.interval \in Nat
  BY ParamsType DEF Init
<1>5. Spent = 0
  BY <1>1, <1>4, FS_EmptySet DEF Spent
<1>6. PICK m \in Modes, t \in {"db", "cluster"}, s \in BOOLEAN, n \in BOOLEAN, w \in WaitSettings :
         params = [mode |-> m, type |-> t, slack |-> s, notify |-> n,
                   interval |-> w[1], max |-> w[2]]
  BY DEF Init, Configurations
<1>7. <<params.interval, params.max>> \in WaitSettings
  BY <1>6, WaitSettingsAssumption
<1>8. params.interval \in Nat /\ params.max \in Nat
  BY ParamsType DEF Init
<1>9. params \in [mode : Modes, type : {"db", "cluster"}, slack : BOOLEAN, notify : BOOLEAN,
                  interval : Nat, max : Nat]
  BY <1>6, <1>8
<1> QED BY <1>2, <1>3, <1>5, <1>7, <1>9, SameVocabulary DEF Init, Control!ControlInit

\* A new observation is a look.
LEMMA DescribeMaps == IInv /\ Describe => Control!Look
<1> SUFFICES ASSUME IInv, Describe PROVE Control!Look
  OBVIOUS
<1>1. PICK o \in ObservationsOf(params.type, status) :
         described' = Checkpoint(described, iteration, o)
  BY DEF Describe
<1>2. /\ pc = "describe"
      /\ iteration \in Nat
      /\ iteration \notin DOMAIN described
      /\ settled = Absent
      /\ UNCHANGED <<params, status, waits, settled>>
  BY DEF Describe, IInv, LocalInv, TypeOK
<1>3. /\ DOMAIN described = 0 .. (iteration - 1)
      /\ waits = 0 .. (iteration - 1)
      /\ Rested
      /\ Spent = iteration * params.interval
  BY <1>2, MappedBefore
<1>4. DOMAIN described' = 0 .. iteration /\ described'[iteration] = o
  BY <1>1, <1>2, <1>3 DEF Checkpoint
<1>5. waits' = 0 .. (iteration - 1)
  BY <1>2, <1>3
<1>6. Seen' = o /\ ~ Rested' /\ Spent' = Spent
  <2>1. SeenIn(described') = o /\ ~ (DOMAIN described' \subseteq waits')
    BY <1>2, <1>4, <1>5, LogAt
  <2> QED BY <1>2, <2>1 DEF Seen, Rested, Spent
<1>7. \/ o = "step-failed"
      \/ status # "gone" /\ o = status
      \/ status = "gone" /\ params.type = "cluster" /\ o = "not-found"
  BY DEF ObservationsOf, StepFailed
<1> QED BY <1>2, <1>3, <1>6, <1>7 DEF Control!Look, Control!Watching

\* An attempt of the command step is a command when RDS accepts it, and nothing
\* otherwise: the resource is as it was.
LEMMA CallMaps ==
    ASSUME IInv, CallRDS, UNCHANGED <<params, described, waits, settled>>
    PROVE  Control!Command \/ UNCHANGED mapped
<1>1. CASE ~ Accepts(status)
  BY <1>1, MappedUnchanged DEF CallRDS
<1>2. CASE Accepts(status)
  <2>1. /\ pc = "command"
        /\ iteration \in DOMAIN described
        /\ iteration \in Nat
        /\ iteration \notin DOMAIN commanded
        /\ DecisionAt(iteration).kind = "pause"
        /\ DecisionAt(iteration).value = params.mode
        /\ settled = Absent
    BY DEF CallRDS, IInv, LocalInv, PausesAt, TypeOK
  <2>2. params.mode # "none"
    BY ParamsType DEF IInv, TypeOK, Modes
  <2>3. /\ described[iteration] = SourceOf(params.mode)
        /\ iteration * params.interval + params.interval <= params.max
    BY <2>1, <2>2, DecisionAtCases DEF IInv, Finish, Pause, Throw
  <2>4. ~ ReadyToWait(iteration)
    BY <2>1, <2>2 DEF ReadyToWait
  <2>5. DOMAIN described = 0 .. iteration /\ waits = 0 .. (iteration - 1)
    BY <2>1, <2>4, NewestIteration
  <2>6. /\ Seen = SourceOf(params.mode)
        /\ ~ Rested
        /\ Spent = iteration * params.interval
    BY <2>1, <2>3, <2>5, LogAt DEF Seen, Rested, Spent
  <2>7. UNCHANGED <<params, Seen, Rested, Spent, settled>>
    BY DEF Seen, Rested, Spent
  <2>8. /\ status = SourceOf(params.mode)
        /\ status' = IF params.mode = "start" THEN "starting" ELSE "stopping"
    BY <1>2 DEF CallRDS, Accepts
  <2> QED BY <2>1, <2>3, <2>6, <2>7, <2>8, SameVocabulary
          DEF Control!Command, Control!Watching, Control!CanRest
<1> QED BY <1>1, <1>2

\* The end of a wait is a rest, whether the invocation lived through it or not.
LEMMA WaitMaps == IInv /\ WaitElapses => Control!Rest
<1> SUFFICES ASSUME IInv, WaitElapses PROVE Control!Rest
  OBVIOUS
<1>1. /\ pc = "wait"
      /\ iteration \in Nat
      /\ iteration \notin waits
      /\ waits' = waits \cup {iteration}
      /\ settled = Absent
      /\ ReadyToWait(iteration)
      /\ UNCHANGED <<params, status, described, settled>>
  BY DEF WaitElapses, worldVars, IInv, LocalInv, TypeOK
<1>2. /\ iteration \in DOMAIN described
      /\ DecisionAt(iteration).kind = "pause"
      /\ described[iteration] # StepFailed
  BY <1>1 DEF ReadyToWait, PausesAt
<1>3. /\ described[iteration] \in {SourceOf(params.mode)} \cup TRANSITIONING_STATES
      /\ iteration * params.interval + params.interval <= params.max
  BY <1>2, DecisionAtCases DEF IInv, Finish, Pause, Throw
<1>4. /\ \A i \in DOMAIN described : i \in 0 .. iteration
      /\ \A j \in 0 .. (iteration - 1) : j \in waits
      /\ \A j \in waits : j \in DOMAIN described
  BY <1>1 DEF IInv, LogInv, LocalInv, TypeOK, ReadyToWait, PausesAt
<1>5. DOMAIN described = 0 .. iteration
  <2>1. \A i \in 0 .. iteration : i \in DOMAIN described
    BY <1>1, <1>2, <1>4
  <2> QED BY <1>4, <2>1
<1>6. waits = 0 .. (iteration - 1)
  <2>1. \A j \in waits : j \in 0 .. (iteration - 1)
    BY <1>1, <1>4
  <2> QED BY <1>4, <2>1
<1>7. /\ Seen = described[iteration]
      /\ ~ Rested
      /\ Spent = iteration * params.interval
  BY <1>1, <1>5, <1>6, LogAt DEF Seen, Rested, Spent
<1>8. waits' = 0 .. iteration
  BY <1>1, <1>6
<1>9. Rested' /\ Seen' = Seen
  BY <1>1, <1>5, <1>8 DEF Rested, Seen
<1>10. Spent' = Spent + params.interval
  <2>1. Cardinality(0 .. iteration) = iteration + 1
    BY <1>1, FS_Interval
  <2>2. Spent' = (iteration + 1) * params.interval
    BY <1>1, <1>8, <2>1 DEF Spent
  <2> QED BY <1>1, <1>7, <2>2, ParamsType DEF IInv, TypeOK
<1> QED BY <1>1, <1>3, <1>7, <1>9, <1>10, SameVocabulary
        DEF Control!Rest, Control!Watching, Control!CanRest

\* The end of the child context is a verdict that the newest look explains.
LEMMA SettleMaps == IInv /\ Settle => Control!Conclude
<1> SUFFICES ASSUME IInv, Settle PROVE Control!Conclude
  OBVIOUS
<1> DEFINE n == iteration
<1>1. /\ settled = Absent
      /\ settled' = result
      /\ UNCHANGED <<params, status, described, waits>>
      /\ EndsWith(n, result) \/ (result = "step" /\ FailsAt(n))
      /\ n \in Nat
  BY DEF Settle, worldVars, IInv, LocalInv, TypeOK
<1>2. n \in DOMAIN described /\ DOMAIN described = 0 .. n /\ waits = 0 .. (n - 1)
  BY <1>1, EndIsNewest
<1>3. Seen = described[n] /\ ~ Rested /\ Spent = n * params.interval
  BY <1>1, <1>2, LogAt DEF Seen, Rested, Spent
<1>4. UNCHANGED <<params, status, Seen, Rested, Spent>>
  BY <1>1 DEF Seen, Rested, Spent
<1> HIDE DEF n
<1>5. ASSUME NEW o, EndsWith(n, o)
      PROVE  /\ Seen # StepFailed
             /\ o = Control!VerdictOn(Seen)
             /\ o = "timeout" => ~ Control!CanRest
             /\ o = "timeout" =>
                   Seen \in {SourceOf(params.mode)} \cup TRANSITIONING_STATES
             /\ o \in {"available", "stopped"} => Seen = TargetOf(params.mode)
  <2>1. /\ Seen # StepFailed
        /\ DecisionAt(n).kind \in {"finish", "throw"}
        /\ o = DecisionAt(n).value
    BY <1>3, <1>5 DEF EndsWith
  <2>2. /\ TargetOf(params.mode) \notin
              {"not-found", SourceOf(params.mode)} \cup TRANSITIONING_STATES
        /\ TargetOf(params.mode) \in {"available", "stopped"}
        /\ "not-found" \notin {SourceOf(params.mode)} \cup TRANSITIONING_STATES
    BY DEF TargetOf, SourceOf, TRANSITIONING_STATES
  <2>3. params.max \in Nat /\ n * params.interval + params.interval \in Nat
    BY <1>1, ParamsType DEF IInv, TypeOK, n
  <2>4. \/ Seen = "not-found" /\ o = "skipped"
        \/ Seen = TargetOf(params.mode) /\ o = Seen
        \/ /\ Seen \in {SourceOf(params.mode)} \cup TRANSITIONING_STATES
           /\ n * params.interval + params.interval > params.max
           /\ o = "timeout"
        \/ /\ Seen \notin {SourceOf(params.mode)} \cup TRANSITIONING_STATES
                            \cup {TargetOf(params.mode), "not-found"}
           /\ o = "unexpected"
    BY <1>2, <1>3, <2>1, DecisionAtCases DEF IInv, Finish, Pause, Throw
  <2>5. Control!CanRest <=> n * params.interval + params.interval <= params.max
    BY <1>3 DEF Control!CanRest
  <2>6. o = Control!VerdictOn(Seen)
    BY <2>2, <2>4, SameVocabulary DEF Control!VerdictOn
  <2> QED BY <2>1, <2>2, <2>3, <2>4, <2>5, <2>6
<1>6. CASE EndsWith(n, result)
  BY <1>1, <1>3, <1>4, <1>5, <1>6
     DEF Control!Conclude, Control!Watching, StepFailed
<1>7. CASE result = "step" /\ FailsAt(n)
  <2>1. described[n] = StepFailed => Control!MayFail
    BY <1>3 DEF Control!MayFail, StepFailed
  <2>2. ASSUME n \in DOMAIN commanded, commanded[n] = StepFailed
        PROVE  Control!MayFail
    <3>1. /\ DecisionAt(n).kind = "pause"
          /\ DecisionAt(n).value = params.mode
          /\ params.mode # "none"
      BY <2>2, ParamsType DEF IInv, LogInv, TypeOK, PausesAt, Modes
    <3>2. /\ described[n] = SourceOf(params.mode)
          /\ n * params.interval + params.interval <= params.max
      BY <1>2, <3>1, DecisionAtCases DEF IInv, Finish, Pause, Throw
    <3> QED BY <1>3, <3>2, SameVocabulary DEF Control!MayFail, Control!CanRest
  <2>3. ASSUME NEW o \in Results, EndsWith(n, o), PostsMessage(o)
        PROVE  Control!MayFail
    BY <2>3, <1>5, SameVocabulary DEF PostsMessage, Control!MayFail
  <2>4. Control!MayFail
    BY <1>7, <2>1, <2>2, <2>3 DEF FailsAt
  <2> QED BY <1>1, <1>3, <1>4, <1>7, <2>4 DEF Control!Conclude, Control!Watching
<1> QED BY <1>1, <1>6, <1>7 DEF n

\* Every step of the durable loop is a step of the uninterrupted watch, or
\* leaves what it sees unchanged.
LEMMA StepMaps == IInv /\ [Next]_vars => [Control!ControlNext]_mapped
<1> SUFFICES ASSUME IInv, [Next]_vars PROVE Control!ControlNext \/ UNCHANGED mapped
  OBVIOUS
<1> USE DEF Control!ControlNext
<1>1. CASE Describe
  BY <1>1, DescribeMaps
<1>2. CASE FinishCommand \/ AttemptCommand
  <2>1. CallRDS /\ UNCHANGED <<params, described, waits, settled>>
    BY <1>2 DEF FinishCommand, AttemptCommand, logVars
  <2> QED BY <2>1, CallMaps
<1>3. CASE WaitElapses
  BY <1>3, WaitMaps
<1>4. CASE Settle
  BY <1>4, SettleMaps
<1>5. CASE StatusDrifts
  <2>1. /\ \E change \in Drift : change[1] = status /\ status' = change[2]
        /\ UNCHANGED <<params, described, waits, settled>>
    BY <1>5 DEF StatusDrifts, logVars
  <2>2. UNCHANGED <<params, Seen, Rested, Spent, settled>>
    BY <2>1 DEF Seen, Rested, Spent
  <2> QED BY <2>1, <2>2 DEF Control!StatusChanges
<1>6. CASE UNCHANGED <<params, status, described, waits, settled>>
  BY <1>6, MappedUnchanged
<1>7. ReplayDescribe \/ ReplayCommand \/ ReplayWait \/ ReplayPost \/ FinishPost
        \/ AttemptPost \/ Crash \/ Done \/ UNCHANGED vars
        => UNCHANGED <<params, status, described, waits, settled>>
  BY DEF ReplayDescribe, ReplayCommand, ReplayWait, ReplayPost, FinishPost,
     AttemptPost, Crash, Done, vars, logVars, worldVars
<1> QED
  BY <1>1, <1>2, <1>3, <1>4, <1>5, <1>6, <1>7 DEF Next, Progress

\* The durable loop, with all its crashes, suspensions and replays, implements
\* the control of one resource by a single uninterrupted watch.
THEOREM Refinement == Spec => ImplementsControl
<1>1. Init => Control!ControlInit
  BY InitMaps
<1>2. IInv /\ [Next]_vars => [Control!ControlNext]_mapped
  BY StepMaps
<1>3. mapped = Control!controlVars
  BY DEF mapped, Control!controlVars
<1> QED
  BY <1>1, <1>2, <1>3, Inductive, PTL
  DEF Spec, ImplementsControl, Control!ControlSpec, mapped, Control!controlVars

-------------------------------------------------------------------------------
(* ResourceProcessing implements ChildControl.                               *)

\* What the newest iteration tells of a child that has not ended.
OpenStage(n) ==
    IF ReadyToWait(n) THEN "waiting"
    ELSE IF params.slack /\ described[n] = TargetOf(params.mode) THEN "posting"
    ELSE "checking"

limitsOfLoop == [interval |-> params.interval, max |-> params.max, slack |-> params.slack]
mappedChild  == <<limitsOfLoop, Stage, Spent>>

\* An iteration that was to be followed by a wait has not seen the target.
LEMMA PauseIsNoTarget ==
    ASSUME IInv, NEW i, PausesAt(i)
    PROVE  described[i] # TargetOf(params.mode)
<1>1. i \in DOMAIN described /\ DecisionAt(i).kind = "pause"
  BY DEF PausesAt
<1>2. TargetOf(params.mode) \notin {"not-found", SourceOf(params.mode)} \cup TRANSITIONING_STATES
  BY DEF TargetOf, SourceOf, TRANSITIONING_STATES
<1> QED BY <1>1, <1>2, DecisionAtCases DEF IInv, Finish, Throw

\* The stage before the wait of the newest iteration n.
StageBefore ==
    \A n \in Nat :
        settled = Absent /\ DOMAIN described = 0 .. n /\ waits = 0 .. (n - 1)
          => /\ Stage = OpenStage(n)
             /\ Spent = n * params.interval
             /\ ReadyToWait(n) => Spent + params.interval <= params.max

LEMMA StageBeforeWait == IInv => StageBefore
<1> SUFFICES ASSUME IInv, NEW n \in Nat, settled = Absent,
                    DOMAIN described = 0 .. n, waits = 0 .. (n - 1)
             PROVE  /\ Stage = OpenStage(n)
                    /\ Spent = n * params.interval
                    /\ ReadyToWait(n) => Spent + params.interval <= params.max
  BY DEF StageBefore
<1>1. n \in DOMAIN described /\ DOMAIN described \ waits = {n}
  OBVIOUS
<1>2. ASSUME NEW i \in DOMAIN described, i # n
      PROVE  described[i] # TargetOf(params.mode)
  <2>1. i \in waits
    BY <1>2
  <2> QED BY <2>1, PauseIsNoTarget DEF IInv, LogInv, ReadyToWait
<1>3. (\E i \in DOMAIN described \ waits : ReadyToWait(i)) <=> ReadyToWait(n)
  BY <1>1
<1>4. (\E i \in DOMAIN described : described[i] = TargetOf(params.mode))
        <=> described[n] = TargetOf(params.mode)
  BY <1>1, <1>2
<1>5. Stage = OpenStage(n)
  <2>1. CASE ReadyToWait(n)
    <3>1. \E i \in DOMAIN described \ waits : ReadyToWait(i)
      BY <1>1, <2>1
    <3>2. ~ \E i \in DOMAIN described : described[i] = TargetOf(params.mode)
      BY <1>4, <2>1, PauseIsNoTarget DEF ReadyToWait
    <3>3. Stage = "waiting"
      BY <3>1, <3>2 DEF Stage
    <3> QED BY <2>1, <3>3 DEF OpenStage
  <2>2. CASE ~ ReadyToWait(n) /\ params.slack /\ described[n] = TargetOf(params.mode)
    BY <1>3, <1>4, <2>2 DEF Stage, OpenStage
  <2>3. CASE ~ ReadyToWait(n) /\ ~ (params.slack /\ described[n] = TargetOf(params.mode))
    BY <1>3, <1>4, <2>3 DEF Stage, OpenStage
  <2> QED BY <2>1, <2>2, <2>3
<1>6. Spent = n * params.interval
  BY LogAt DEF Spent
<1>7. ASSUME ReadyToWait(n) PROVE Spent + params.interval <= params.max
  <2>1. (n + 1) * params.interval <= params.max
    BY <1>7, PauseFits DEF ReadyToWait
  <2>2. params.interval \in Nat
    BY ParamsType DEF IInv, TypeOK
  <2> QED BY <1>6, <2>1, <2>2
<1> QED BY <1>5, <1>6, <1>7

\* The stage after the wait of n iterations.
StageAfter ==
    \A n \in Nat :
        settled = Absent /\ DOMAIN described = 0 .. (n - 1) /\ waits = 0 .. (n - 1)
          => Stage = "checking" /\ Spent = n * params.interval

LEMMA StageAfterWait == IInv => StageAfter
<1> SUFFICES ASSUME IInv, NEW n \in Nat, settled = Absent,
                    DOMAIN described = 0 .. (n - 1), waits = 0 .. (n - 1)
             PROVE  Stage = "checking" /\ Spent = n * params.interval
  BY DEF StageAfter
<1>1. DOMAIN described \ waits = {}
  OBVIOUS
<1>2. ASSUME NEW i \in DOMAIN described
      PROVE  described[i] # TargetOf(params.mode)
  BY PauseIsNoTarget DEF IInv, LogInv, ReadyToWait
<1>3. Stage = "checking"
  BY <1>1, <1>2 DEF Stage
<1>4. Cardinality(waits) = n
  BY FS_Interval
<1> QED BY <1>3, <1>4 DEF Spent

\* Each step keeps the invariant.
LEMMA StepInv == IInv /\ [Next]_vars => IInv'
BY TypeStep, LogStep, LocalStep, ReportStep DEF IInv

LEMMA LimitValues ==
    /\ limitsOfLoop.interval = params.interval /\ limitsOfLoop.max = params.max
    /\ limitsOfLoop.slack = params.slack
BY DEF limitsOfLoop

LEMMA ChildInitMaps == Init => Child!ChildInit
<1> SUFFICES ASSUME Init PROVE Child!ChildInit
  OBVIOUS
<1>1. params.interval \in Nat \ {0} /\ params.max \in Nat /\ params.slack \in BOOLEAN
  BY ParamsType DEF Init
<1>2. DOMAIN described = {} /\ waits = {} /\ settled = Absent
  BY DEF Init, EmptyLog
<1>3. Stage = "checking"
  BY <1>2 DEF Stage
<1>4. Spent = 0
  BY <1>1, <1>2, FS_EmptySet DEF Spent
<1> QED BY <1>1, <1>3, <1>4 DEF Child!ChildInit

\* A check sends the child to wait, to announce, or leaves it with a command to
\* send or an error to report.
LEMMA DescribeTurns == IInv /\ Describe => Child!ChildNext \/ UNCHANGED mappedChild
<1> SUFFICES ASSUME IInv, Describe PROVE Child!ChildNext \/ UNCHANGED mappedChild
  OBVIOUS
<1>1. PICK o \in ObservationsOf(params.type, status) :
         described' = Checkpoint(described, iteration, o)
  BY DEF Describe
<1>2. /\ pc = "describe" /\ iteration \in Nat /\ iteration \notin DOMAIN described
      /\ settled = Absent
      /\ UNCHANGED <<params, waits, settled>>
      /\ IInv'
  BY StepInv DEF Describe, IInv, LocalInv, TypeOK, Next, Progress
<1>3. /\ DOMAIN described = 0 .. (iteration - 1) /\ waits = 0 .. (iteration - 1)
  BY <1>2, MappedBefore
<1>4. Stage = "checking" /\ Spent = iteration * params.interval
  BY <1>2, <1>3, StageAfterWait DEF StageAfter
<1>5. DOMAIN described' = 0 .. iteration /\ waits' = 0 .. (iteration - 1)
  BY <1>1, <1>2, <1>3 DEF Checkpoint
<1>6. StageBefore'
  BY <1>2, StageBeforeWait, PTL
<1>7. /\ Stage' \in {"waiting", "checking"} \/ (Stage' = "posting" /\ params.slack)
      /\ Stage' = "waiting" => Spent + params.interval <= params.max
      /\ Spent' = Spent
  BY <1>2, <1>4, <1>5, <1>6 DEF StageBefore, OpenStage
<1> QED BY <1>2, <1>4, <1>7, LimitValues
        DEF mappedChild, limitsOfLoop, Child!ChildNext, Child!Pause, Child!Announce

\* The command of an iteration is the part of its check that comes before the wait.
LEMMA CommandTurns == IInv /\ FinishCommand => Child!ChildNext \/ UNCHANGED mappedChild
<1> SUFFICES ASSUME IInv, FinishCommand PROVE Child!ChildNext \/ UNCHANGED mappedChild
  OBVIOUS
<1>1. /\ pc = "command" /\ iteration \in Nat /\ iteration \notin DOMAIN commanded
      /\ iteration \in DOMAIN described /\ settled = Absent
      /\ PausesAt(iteration) /\ DecisionAt(iteration).value = params.mode
      /\ UNCHANGED <<params, described, waits, settled>>
      /\ IInv'
  BY StepInv DEF FinishCommand, CallRDS, IInv, LocalInv, TypeOK, PausesAt, Next, Progress
<1>2. ~ ReadyToWait(iteration) /\ described[iteration] # TargetOf(params.mode)
  BY <1>1, ParamsType, PauseIsNoTarget DEF IInv, TypeOK, ReadyToWait, Modes
<1>3. DOMAIN described = 0 .. iteration /\ waits = 0 .. (iteration - 1)
  BY <1>1, <1>2, NewestIteration
<1>4. Stage = "checking" /\ Spent = iteration * params.interval
  BY <1>1, <1>2, <1>3, StageBeforeWait DEF StageBefore, OpenStage
<1>5. StageBefore'
  BY <1>1, StageBeforeWait, PTL
<1>6. /\ Stage' \in {"waiting", "checking"}
      /\ Stage' = "waiting" => Spent + params.interval <= params.max
      /\ Spent' = Spent
  BY <1>1, <1>2, <1>3, <1>4, <1>5 DEF StageBefore, OpenStage
<1> QED BY <1>1, <1>4, <1>6, LimitValues
        DEF mappedChild, limitsOfLoop, Child!ChildNext, Child!Pause

LEMMA WaitTurns == IInv /\ WaitElapses => Child!Resume
<1> SUFFICES ASSUME IInv, WaitElapses PROVE Child!Resume
  OBVIOUS
<1>1. /\ iteration \in Nat /\ iteration \notin waits /\ settled = Absent
      /\ waits' = waits \cup {iteration}
      /\ ReadyToWait(iteration)
      /\ UNCHANGED <<params, described, settled>>
      /\ IInv'
  BY StepInv DEF WaitElapses, IInv, LocalInv, TypeOK, Next, Progress
<1>2. /\ iteration \in DOMAIN described
      /\ \A i \in DOMAIN described : i \in 0 .. iteration
      /\ \A j \in 0 .. (iteration - 1) : j \in waits
      /\ \A j \in waits : j \in DOMAIN described
  BY <1>1 DEF IInv, LogInv, LocalInv, TypeOK, ReadyToWait, PausesAt
<1>3. DOMAIN described = 0 .. iteration /\ waits = 0 .. (iteration - 1)
  <2>1. \A i \in 0 .. iteration : i \in DOMAIN described
    BY <1>1, <1>2
  <2>2. \A j \in waits : j \in 0 .. (iteration - 1)
    BY <1>1, <1>2
  <2> QED BY <1>2, <2>1, <2>2
<1>4. Stage = "waiting" /\ Spent = iteration * params.interval
  BY <1>1, <1>3, StageBeforeWait DEF StageBefore, OpenStage
<1>5. DOMAIN described' = 0 .. ((iteration + 1) - 1) /\ waits' = 0 .. ((iteration + 1) - 1)
  BY <1>1, <1>3
<1>6. StageAfter'
  BY <1>1, StageAfterWait, PTL
<1>7. Stage' = "checking" /\ Spent' = (iteration + 1) * params.interval
  BY <1>1, <1>5, <1>6 DEF StageAfter
<1>8. Spent' = Spent + params.interval
  <2>1. params.interval \in Nat /\ params' = params
    BY <1>1, ParamsType DEF IInv, TypeOK
  <2> QED BY <1>1, <1>4, <1>7, <2>1
<1> QED BY <1>1, <1>4, <1>7, <1>8, LimitValues DEF limitsOfLoop, Child!Resume

\* The child context ends as a child of the run does.
LEMMA SettleTurns == IInv /\ Settle => Child!Return \/ Child!Throw
<1> SUFFICES ASSUME IInv, Settle PROVE Child!Return \/ Child!Throw
  OBVIOUS
<1> DEFINE n == iteration
<1>1. /\ settled = Absent /\ settled' = result
      /\ UNCHANGED <<params, described, waits>>
      /\ EndsWith(n, result) \/ (result = "step" /\ FailsAt(n))
      /\ n \in Nat /\ result \in Results \cup {Absent}
  BY DEF Settle, worldVars, IInv, LocalInv, TypeOK
<1>2. n \in DOMAIN described /\ ~ ReadyToWait(n)
      /\ DOMAIN described = 0 .. n /\ waits = 0 .. (n - 1)
  BY <1>1, EndIsNewest
<1>3. Stage = IF params.slack /\ described[n] = TargetOf(params.mode)
              THEN "posting" ELSE "checking"
  BY <1>1, <1>2, StageBeforeWait DEF StageBefore, OpenStage
<1>4. Spent' = Spent /\ limitsOfLoop' = limitsOfLoop /\ params.slack \in BOOLEAN
  BY <1>1, ParamsType DEF Spent, limitsOfLoop, IInv, TypeOK
<1> HIDE DEF n
<1>5. ASSUME result # "step"
      PROVE  \/ result \in {"available", "stopped"} /\ described[n] = TargetOf(params.mode)
             \/ result = "skipped" /\ described[n] # TargetOf(params.mode)
             \/ result \in {"unexpected", "timeout"}
  <2>1. TargetOf(params.mode) \in {"available", "stopped"}
    BY DEF TargetOf
  <2>2. DecisionAt(n).kind \in {"finish", "throw"} /\ result = DecisionAt(n).value
    BY <1>1, <1>5 DEF EndsWith
  <2> QED BY <1>2, <2>1, <2>2, DecisionAtCases DEF IInv, Finish, Pause, Throw
<1>6. CASE result \in {"available", "stopped"}
  <2>1. Stage' = "ok"
    BY <1>1, <1>6 DEF Stage
  <2> QED BY <1>3, <1>4, <1>5, <1>6, <2>1, LimitValues DEF limitsOfLoop, Child!Return
<1>7. CASE result = "skipped"
  <2>1. Stage' = "skipped"
    BY <1>1, <1>7 DEF Stage
  <2> QED BY <1>3, <1>4, <1>5, <1>7, <2>1 DEF limitsOfLoop, Child!Return
<1>8. CASE result \in {"unexpected", "timeout", "step"}
  <2>1. Stage' = "failed"
    BY <1>1, <1>8 DEF Stage
  <2> QED BY <1>3, <1>4, <2>1 DEF limitsOfLoop, Child!Throw
<1> QED BY <1>5, <1>6, <1>7, <1>8

\* Every step of the durable loop is a turn of the child, or invisible to the run.
LEMMA StepTurns == IInv /\ [Next]_vars => Child!ChildNext \/ UNCHANGED mappedChild
<1> SUFFICES ASSUME IInv, [Next]_vars PROVE Child!ChildNext \/ UNCHANGED mappedChild
  OBVIOUS
<1>1. UNCHANGED <<params, described, commanded, waits, settled>> => UNCHANGED mappedChild
  BY DEF mappedChild, limitsOfLoop, Stage, Spent, ReadyToWait, PausesAt, DecisionAt
<1>2. CASE Describe
  BY <1>2, DescribeTurns
<1>3. CASE FinishCommand
  BY <1>3, CommandTurns
<1>4. CASE WaitElapses \/ Settle
  BY <1>4, WaitTurns, SettleTurns DEF Child!ChildNext
<1>5. CASE ReplayDescribe \/ ReplayCommand \/ ReplayWait \/ ReplayPost \/ FinishPost
           \/ AttemptCommand \/ AttemptPost \/ Crash \/ StatusDrifts \/ Done \/ UNCHANGED vars
  BY <1>1, <1>5
  DEF ReplayDescribe, ReplayCommand, ReplayWait, ReplayPost, FinishPost,
      AttemptCommand, AttemptPost, Crash, StatusDrifts, Done, vars, logVars
<1> QED BY <1>2, <1>3, <1>4, <1>5 DEF Next, Progress

\* For all statuses, drifts, wait settings and crashes: the durable loop stays within
\* the turns, the waits and the ends of ChildControl.
THEOREM LoopActsAsChild == Spec => ActsAsChild
<1>1. Init => Child!ChildInit
  BY ChildInitMaps
<1>2. IInv /\ [Next]_vars => [Child!ChildNext]_(Child!controlVars)
  <2>1. UNCHANGED mappedChild => UNCHANGED Child!controlVars
    BY DEF mappedChild, limitsOfLoop, Child!controlVars
  <2> QED BY <2>1, StepTurns
<1> QED BY <1>1, <1>2, Inductive, PTL DEF Spec, ActsAsChild, Child!ChildSpec
==============================================================================
