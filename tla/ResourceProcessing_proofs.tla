---------------------- MODULE ResourceProcessing_proofs ----------------------
(***************************************************************************)
(* Proofs about ResourceProcessing, for all statuses, all changes of       *)
(* status, all wait settings and any number of crashes.                    *)
(***************************************************************************)
EXTENDS ResourceProcessing, RunningScheduleWait_proofs, TLAPS

-------------------------------------------------------------------------------
(* The inductive invariant.  An invocation can trust its local variables only *)
(* because the log is a complete account of the iterations before it.         *)

\* Iterations are logged in order, each after the wait of the one before.
LogInv ==
    /\ \A i \in DOMAIN described : \A j \in 0 .. (i - 1) : j \in waits
    /\ \A i \in waits : ReadyToWait(i)
    /\ \A i \in DOMAIN commanded : PausesAt(i) /\ DecisionAt(i).value = params.mode
    /\ \A c \in calls :
          /\ c.command = params.mode
          /\ PausesAt(c.iteration)
          /\ DecisionAt(c.iteration).value = params.mode

\* The loop ended in iteration i with this decision.
EndsWith(i, outcome) ==
    /\ i \in DOMAIN described
    /\ described[i] # StepFailed
    /\ DecisionAt(i).kind \in {"finish", "throw"}
    /\ outcome = DecisionAt(i).value

\* Some step of iteration i kept failing.
FailsAt(i) ==
    \/ i \in DOMAIN described /\ described[i] = StepFailed
    \/ i \in DOMAIN commanded /\ commanded[i] = StepFailed
    \/ \E outcome \in Results :
          /\ EndsWith(i, outcome)
          /\ PostsMessage(outcome)
          /\ SlackStepFor(outcome) \in DOMAIN posted
          /\ posted[SlackStepFor(outcome)] = StepFailed

\* The counters are what the log says, and the result in hand is explained by
\* the iteration they point at.
LocalInv ==
    /\ elapsedWaitSeconds = iteration * params.interval
    /\ \A j \in 0 .. (iteration - 1) : j \in waits
    /\ pc \in {"describe", "command", "wait"} <=> result = Absent
    /\ pc = "command" => PausesAt(iteration) /\ DecisionAt(iteration).value = params.mode
    /\ pc = "wait" => ReadyToWait(iteration)
    /\ pc = "post" => EndsWith(iteration, result) /\ PostsMessage(result)
    /\ pc \in {"return", "settled"} =>
          \/ EndsWith(iteration, result)
          \/ result = "step" /\ FailsAt(iteration)
    /\ settled = IF pc = "settled" THEN result ELSE Absent

\* What was reported follows from the iteration that ended the loop.
ReportInv ==
    /\ \A m \in markers :
          \E i \in DOMAIN described : \E outcome \in Results :
              EndsWith(i, outcome) /\ m \in MarkersFor(outcome)
    /\ \A m \in messages :
          \E i \in DOMAIN described : EndsWith(i, m) /\ PostsMessage(m)
    /\ \A m \in messages : MarkersFor(m) \subseteq markers
    /\ \A s \in DOMAIN posted : posted[s] = "done" =>
          \E m \in messages : SlackStepFor(m) = s
    /\ pc \in {"post", "return", "settled"} /\ result # "step" =>
          MarkersFor(result) \subseteq markers
    /\ pc \in {"return", "settled"} /\ result # "step" /\ PostsMessage(result) =>
          result \in messages

IInv == TypeOK /\ LogInv /\ LocalInv /\ ReportInv

-------------------------------------------------------------------------------
(* Lemmas about the operators the steps are built from. *)

USE DEF StepKey, Absent

\* The valid configurations, in the form the arithmetic steps use.
LEMMA ParamsType ==
    ASSUME params \in Configurations
    PROVE  /\ params.mode \in Modes
           /\ params.interval \in Nat \ {0}
           /\ params.max \in Nat
           /\ params.max >= params.interval
           /\ params.type \in {"db", "cluster"}
           /\ params.slack \in BOOLEAN
           /\ params.notify \in BOOLEAN
BY WaitSettingsAssumption DEF Configurations, resolveResourceWait

\* What a logged observation leads to, in iteration i.
LEMMA DecisionAtCases ==
    ASSUME TypeOK, NEW i \in DOMAIN described
    PROVE  LET moving == {SourceOf(params.mode)} \cup TRANSITIONING_STATES
               seen == described[i]
           IN  \/ seen = "not-found" /\ DecisionAt(i) = Finish("skipped")
               \/ seen = TargetOf(params.mode) /\ DecisionAt(i) = Finish(seen)
               \/ /\ seen = SourceOf(params.mode)
                  /\ i * params.interval + params.interval <= params.max
                  /\ DecisionAt(i) = Pause(params.mode)
               \/ /\ seen \in TRANSITIONING_STATES
                  /\ i * params.interval + params.interval <= params.max
                  /\ DecisionAt(i) = Pause("none")
               \/ /\ seen \in moving
                  /\ i * params.interval + params.interval > params.max
                  /\ DecisionAt(i) = Throw("timeout")
               \/ /\ seen \notin moving \cup {TargetOf(params.mode), "not-found"}
                  /\ DecisionAt(i) = Throw("unexpected")
<1>1. /\ params.mode \in Modes
      /\ params.interval \in Int
      /\ params.max \in Int
      /\ i * params.interval \in Int
  BY ParamsType DEF TypeOK
<1> QED BY <1>1, DecisionCases DEF DecisionAt

\* The same, for the iteration the invocation is in.
LEMMA DecisionType ==
    ASSUME TypeOK, NEW observation \in Observations
    PROVE  LET step == nextWaitStep(params.mode, observation, elapsedWaitSeconds,
                                    params.interval, params.max)
           IN  /\ step.kind \in {"finish", "throw", "pause"}
               /\ step.kind \in {"finish", "throw"} =>
                     step.value \in Results \ {"step"}
               /\ step.kind = "pause" => step.value \in {"none", params.mode}
<1>1. /\ params.mode \in Modes
      /\ params.interval \in Int
      /\ params.max \in Int
      /\ elapsedWaitSeconds \in Int
  BY ParamsType DEF TypeOK
<1>2. TargetOf(params.mode) \in {"available", "stopped"}
  BY DEF TargetOf
<1> DEFINE step == nextWaitStep(params.mode, observation, elapsedWaitSeconds,
                                params.interval, params.max)
<1>3. \/ step \in {Finish("skipped"), Finish(TargetOf(params.mode))}
      \/ step \in {Pause("none"), Pause(params.mode)}
      \/ step \in {Throw("timeout"), Throw("unexpected")}
  BY <1>1, DecisionCases
<1> HIDE DEF step
<1>4. /\ step.kind \in {"finish", "throw", "pause"}
      /\ step.kind \in {"finish", "throw"} => step.value \in Results \ {"step"}
      /\ step.kind = "pause" => step.value \in {"none", params.mode}
  BY <1>2, <1>3 DEF Finish, Pause, Throw, Results
<1> QED BY <1>4 DEF step

\* What a step of the code does to the log: it only adds to it.
Extends ==
    /\ params' = params
    /\ \A i \in DOMAIN described :
          i \in DOMAIN described' /\ described'[i] = described[i]
    /\ \A i \in DOMAIN commanded :
          i \in DOMAIN commanded' /\ commanded'[i] = commanded[i]
    /\ waits \subseteq waits'
    /\ \A s \in DOMAIN posted : s \in DOMAIN posted' /\ posted'[s] = posted[s]

\* No step takes anything out of the log: every entry of it is kept as it is.
LEMMA NextExtends == [Next]_vars => Extends
<1> SUFFICES ASSUME [Next]_vars PROVE Extends
  OBVIOUS
<1> USE DEF Extends, logVars
<1>1. CASE Describe
  <2>1. PICK o : described' = Checkpoint(described, iteration, o)
    BY <1>1 DEF Describe
  <2>2. iteration \notin DOMAIN described
    BY <1>1 DEF Describe
  <2> HIDE DEF Extends
  <2>3. \A i \in DOMAIN described :
          i \in DOMAIN described' /\ described'[i] = described[i]
    BY <2>1, <2>2 DEF Checkpoint
  <2> QED BY <1>1, <2>3 DEF Describe, Extends
<1>2. CASE FinishCommand
  <2>1. PICK o : commanded' = Checkpoint(commanded, iteration, o)
    BY <1>2 DEF FinishCommand
  <2>2. iteration \notin DOMAIN commanded
    BY <1>2 DEF FinishCommand, CallRDS
  <2> HIDE DEF Extends
  <2>3. \A i \in DOMAIN commanded :
          i \in DOMAIN commanded' /\ commanded'[i] = commanded[i]
    BY <2>1, <2>2 DEF Checkpoint
  <2> QED BY <1>2, <2>3 DEF FinishCommand, Extends
<1>3. CASE FinishPost
  <2>1. PICK o : posted' = Checkpoint(posted, SlackStepFor(result), o)
    BY <1>3 DEF FinishPost
  <2>2. SlackStepFor(result) \notin DOMAIN posted
    BY <1>3 DEF FinishPost
  <2> HIDE DEF Extends
  <2>3. \A s \in DOMAIN posted : s \in DOMAIN posted' /\ posted'[s] = posted[s]
    BY <2>1, <2>2 DEF Checkpoint
  <2> QED BY <1>3, <2>3 DEF FinishPost, Extends
<1>4. CASE ReplayDescribe
  BY <1>4 DEF ReplayDescribe
<1>5. CASE ReplayCommand
  BY <1>5 DEF ReplayCommand
<1>6. CASE AttemptCommand
  BY <1>6 DEF AttemptCommand
<1>7. CASE ReplayWait
  BY <1>7 DEF ReplayWait
<1>8. CASE WaitElapses
  BY <1>8 DEF WaitElapses
<1>9. CASE ReplayPost
  BY <1>9 DEF ReplayPost
<1>10. CASE AttemptPost
  BY <1>10 DEF AttemptPost
<1>11. CASE Settle
  BY <1>11 DEF Settle
<1>12. CASE Crash
  BY <1>12 DEF Crash
<1>13. CASE StatusDrifts
  BY <1>13 DEF StatusDrifts
<1>14. CASE Done \/ UNCHANGED vars
  BY <1>14 DEF Done, vars
<1> QED
  BY <1>1, <1>2, <1>3, <1>4, <1>5, <1>6, <1>7, <1>8, <1>9, <1>10, <1>11,
     <1>12, <1>13, <1>14 DEF Next, Progress

\* So what an iteration decided, did or failed at stays as it was.
LEMMA AccountsPersist ==
    ASSUME Extends, NEW i
    PROVE  /\ i \in DOMAIN described => DecisionAt(i)' = DecisionAt(i)
           /\ PausesAt(i) => PausesAt(i)'
           /\ ReadyToWait(i) => ReadyToWait(i)'
           /\ \A o : EndsWith(i, o) => EndsWith(i, o)'
           /\ \A o : PostsMessage(o)' = PostsMessage(o)
           /\ FailsAt(i) => FailsAt(i)'
<1> USE DEF Extends
<1>1. i \in DOMAIN described => DecisionAt(i)' = DecisionAt(i)
  BY DEF DecisionAt
<1>2. PausesAt(i) => PausesAt(i)'
  BY <1>1 DEF PausesAt
<1>3. ReadyToWait(i) => ReadyToWait(i)'
  BY <1>1, <1>2 DEF ReadyToWait, PausesAt
<1>4. \A o : EndsWith(i, o) => EndsWith(i, o)'
  BY <1>1 DEF EndsWith
<1>5. \A o : PostsMessage(o)' = PostsMessage(o)
  BY DEF PostsMessage
<1>6. FailsAt(i) => FailsAt(i)'
  BY <1>4, <1>5 DEF FailsAt
<1> QED BY <1>1, <1>2, <1>3, <1>4, <1>5, <1>6

-------------------------------------------------------------------------------
(* Every step preserves the types. *)

\* Leaving the loop or going on keeps the local variables well-typed.
LEMMA ProceedType ==
    ASSUME TypeOK, NEW observation \in Observations, Proceed(observation)
    PROVE  /\ pc' \in {"command", "wait", "post", "return"}
           /\ result' \in Results \cup {Absent}
           /\ markers' \subseteq {"ResourceStatusUnexpected", "ResourceWaitTimedOut"}
<1>1. result \in Results \cup {Absent}
  BY DEF TypeOK
<1>2. markers \subseteq {"ResourceStatusUnexpected", "ResourceWaitTimedOut"}
  BY DEF TypeOK
<1>3. \A o : MarkersFor(o) \subseteq {"ResourceStatusUnexpected", "ResourceWaitTimedOut"}
  BY DEF MarkersFor
<1> QED
  BY <1>1, <1>2, <1>3, DecisionType DEF Proceed, LeaveLoop, Results

\* What AfterCommand may set, whatever the command step returned.
LEMMA AfterCommandType ==
    ASSUME TypeOK, NEW outcome, AfterCommand(outcome)
    PROVE  /\ pc' \in {"wait", "post", "return"}
           /\ result' \in Results \cup {Absent}
           /\ markers' \subseteq {"ResourceStatusUnexpected", "ResourceWaitTimedOut"}
<1>1. \A o : MarkersFor(o) \subseteq {"ResourceStatusUnexpected", "ResourceWaitTimedOut"}
  BY DEF MarkersFor
<1> QED BY <1>1 DEF AfterCommand, LeaveLoop, Results, TypeOK

\* A describe step returns one of the observations the loop knows.
LEMMA ObservationsOfType ==
    ASSUME NEW type, NEW current \in Statuses
    PROVE  ObservationsOf(type, current) \subseteq Observations
BY DEF ObservationsOf, Observations

\* The counters stay natural numbers when an iteration or an invocation begins.
LEMMA NextIterationType ==
    ASSUME TypeOK, NextIteration \/ StartOver
    PROVE  /\ pc' \in {"describe"}
           /\ iteration' \in Nat
           /\ elapsedWaitSeconds' \in Nat
           /\ result' \in Results \cup {Absent}
BY ParamsType DEF TypeOK, NextIteration, StartOver

\* An RDS call leaves a known status and is recorded with its command.
LEMMA CallType ==
    ASSUME TypeOK, CallRDS
    PROVE  /\ status' \in Statuses
           /\ calls' \subseteq [command : Modes, iteration : Nat, status : Statuses]
<1>1. Call \in [command : Modes, iteration : Nat, status : Statuses]
  BY ParamsType DEF Call, TypeOK
<1>2. status' \in Statuses
  BY StatusesAssumption DEF CallRDS, TypeOK
<1> QED BY <1>1, <1>2 DEF CallRDS, TypeOK

\* Every step of the resource preserves the type invariant.
LEMMA TypeStep == IInv /\ [Next]_vars => TypeOK'
<1> SUFFICES ASSUME TypeOK, LocalInv, [Next]_vars PROVE TypeOK'
  BY DEF IInv
<1> USE DEF TypeOK
<1>1. CASE Describe
  <2>1. PICK o \in ObservationsOf(params.type, status) :
           described' = Checkpoint(described, iteration, o) /\ Proceed(o)
    BY <1>1 DEF Describe
  <2>2. o \in Observations
    BY <2>1, ObservationsOfType
  <2>3. /\ DOMAIN described' \subseteq Nat
        /\ \A i \in DOMAIN described' : described'[i] \in Observations
    BY <2>1, <2>2 DEF Checkpoint
  <2>4. /\ pc' \in {"command", "wait", "post", "return"}
        /\ result' \in Results \cup {Absent}
        /\ markers' \subseteq {"ResourceStatusUnexpected", "ResourceWaitTimedOut"}
    BY <2>1, <2>2, ProceedType
  <2> QED BY <1>1, <2>3, <2>4 DEF Describe
<1>2. CASE ReplayDescribe
  <2>1. described[iteration] \in Observations /\ Proceed(described[iteration])
    BY <1>2 DEF ReplayDescribe
  <2>2. /\ pc' \in {"command", "wait", "post", "return"}
        /\ result' \in Results \cup {Absent}
        /\ markers' \subseteq {"ResourceStatusUnexpected", "ResourceWaitTimedOut"}
    BY <2>1, ProceedType
  <2> QED BY <1>2, <2>2 DEF ReplayDescribe, logVars
<1>3. CASE FinishCommand
  <2>1. PICK o \in {"done", StepFailed} :
           commanded' = Checkpoint(commanded, iteration, o) /\ AfterCommand(o)
    BY <1>3 DEF FinishCommand
  <2>2. /\ DOMAIN commanded' \subseteq Nat
        /\ \A i \in DOMAIN commanded' : commanded'[i] \in {"done", StepFailed}
    BY <2>1 DEF Checkpoint
  <2>3. /\ pc' \in {"wait", "post", "return"}
        /\ result' \in Results \cup {Absent}
        /\ markers' \subseteq {"ResourceStatusUnexpected", "ResourceWaitTimedOut"}
    BY <2>1, AfterCommandType
  <2>4. /\ status' \in Statuses
        /\ calls' \subseteq [command : Modes, iteration : Nat, status : Statuses]
    BY <1>3, CallType DEF FinishCommand
  <2> QED BY <1>3, <2>2, <2>3, <2>4 DEF FinishCommand
<1>4. CASE ReplayCommand
  <2>1. /\ pc' \in {"wait", "post", "return"}
        /\ result' \in Results \cup {Absent}
        /\ markers' \subseteq {"ResourceStatusUnexpected", "ResourceWaitTimedOut"}
    BY <1>4, AfterCommandType DEF ReplayCommand
  <2> QED BY <1>4, <2>1 DEF ReplayCommand, logVars
<1>5. CASE AttemptCommand
  <2>1. /\ status' \in Statuses
        /\ calls' \subseteq [command : Modes, iteration : Nat, status : Statuses]
    BY <1>5, CallType DEF AttemptCommand
  <2> QED BY <1>5, <2>1 DEF AttemptCommand, logVars, localVars
<1>6. CASE ReplayWait
  BY <1>6, NextIterationType DEF ReplayWait, logVars, worldVars
<1>7. CASE WaitElapses
  BY <1>7, NextIterationType DEF WaitElapses, worldVars
<1>8. CASE ReplayPost
  BY <1>8 DEF ReplayPost, AfterPost, logVars, worldVars, Results
<1>9. CASE AttemptPost
  BY <1>9 DEF AttemptPost, Deliver, logVars, localVars, LocalInv
<1>10. CASE FinishPost
  <2>1. PICK o \in {"done", StepFailed} :
           /\ posted' = Checkpoint(posted, SlackStepFor(result), o)
           /\ AfterPost(o)
           /\ IF o = "done" THEN Deliver ELSE UNCHANGED messages
    BY <1>10 DEF FinishPost
  <2>2. SlackStepFor(result) \in SlackSteps
    BY DEF SlackStepFor, SlackSteps
  <2>3. /\ DOMAIN posted' \subseteq SlackSteps
        /\ \A s \in DOMAIN posted' : posted'[s] \in {"done", StepFailed}
    BY <2>1, <2>2 DEF Checkpoint
  <2>4. messages' \subseteq Results
    BY <1>10, <2>1 DEF FinishPost, Deliver, LocalInv
  <2> QED BY <1>10, <2>1, <2>3, <2>4 DEF FinishPost, AfterPost, Results
<1>11. CASE Settle
  BY <1>11 DEF Settle, worldVars
<1>12. CASE Crash
  BY <1>12, NextIterationType DEF Crash, logVars, worldVars
<1>13. CASE StatusDrifts
  BY <1>13, DriftAssumption DEF StatusDrifts, logVars, localVars
<1>14. CASE Done \/ UNCHANGED vars
  BY <1>14 DEF Done, vars, logVars, localVars, worldVars
<1> QED
  BY <1>1, <1>2, <1>3, <1>4, <1>5, <1>6, <1>7, <1>8, <1>9, <1>10, <1>11,
     <1>12, <1>13, <1>14 DEF Next, Progress

-------------------------------------------------------------------------------
(* Every step keeps the log a complete account. *)

\* A call is made in an iteration that decided on it.
LEMMA CallsAccounted ==
    ASSUME IInv, Extends, CallRDS
    PROVE  \A c \in calls' :
              /\ c.command = params'.mode
              /\ PausesAt(c.iteration)'
              /\ DecisionAt(c.iteration)'.value = params'.mode
<1>1. /\ Call.command = params.mode
      /\ Call.iteration = iteration
      /\ PausesAt(iteration)
      /\ DecisionAt(iteration).value = params.mode
  BY DEF IInv, LocalInv, CallRDS, Call
<1>2. \A c \in calls' : /\ c.command = params.mode
                        /\ PausesAt(c.iteration)
                        /\ DecisionAt(c.iteration).value = params.mode
  BY <1>1 DEF CallRDS, IInv, LogInv
<1>3. \A c \in calls' :
         /\ PausesAt(c.iteration)'
         /\ DecisionAt(c.iteration)' = DecisionAt(c.iteration)
  BY <1>2, AccountsPersist DEF PausesAt
<1> QED BY <1>2, <1>3 DEF Extends

\* Every step preserves what the log alone says: see LogInv.
LEMMA LogStep == IInv /\ [Next]_vars => LogInv'
<1> SUFFICES ASSUME IInv, [Next]_vars PROVE LogInv'
  OBVIOUS
<1>1. Extends
  BY NextExtends
\* What was accounted for still is.
<1>2. \A i \in waits : ReadyToWait(i)'
  BY <1>1, AccountsPersist DEF IInv, LogInv
<1>3. \A i \in DOMAIN commanded : PausesAt(i)' /\ DecisionAt(i)'.value = params'.mode
  BY <1>1, AccountsPersist DEF IInv, LogInv, PausesAt, Extends
<1>4. \A c \in calls : /\ c.command = params'.mode
                       /\ PausesAt(c.iteration)'
                       /\ DecisionAt(c.iteration)'.value = params'.mode
  BY <1>1, AccountsPersist DEF IInv, LogInv, PausesAt, Extends
<1>5. \A i \in DOMAIN described : \A j \in 0 .. (i - 1) : j \in waits'
  BY <1>1 DEF IInv, LogInv, Extends
<1>6. \A j \in 0 .. (iteration - 1) : j \in waits'
  BY <1>1 DEF IInv, LocalInv, Extends
<1>7. CASE Describe
  <2>1. DOMAIN described' = DOMAIN described \cup {iteration}
    BY <1>7 DEF Describe, Checkpoint
  <2>2. \A i \in DOMAIN described' : \A j \in 0 .. (i - 1) : j \in waits'
    BY <2>1, <1>5, <1>6
  <2>3. waits' = waits /\ commanded' = commanded /\ calls' = calls
    BY <1>7 DEF Describe
  <2> QED BY <2>2, <2>3, <1>2, <1>3, <1>4 DEF LogInv
<1>8. CASE FinishCommand
  <2>1. DOMAIN commanded' = DOMAIN commanded \cup {iteration}
    BY <1>8 DEF FinishCommand, Checkpoint
  <2>2. PausesAt(iteration)' /\ DecisionAt(iteration)'.value = params'.mode
    <3>1. PausesAt(iteration) /\ DecisionAt(iteration).value = params.mode
      BY <1>8 DEF FinishCommand, CallRDS, IInv, LocalInv
    <3>2. iteration' = iteration
      BY <1>8 DEF FinishCommand
    <3> QED BY <3>1, <3>2, <1>1, AccountsPersist DEF PausesAt, Extends
  <2>3. waits' = waits /\ described' = described /\ iteration' = iteration
    BY <1>8 DEF FinishCommand
  <2>4. \A c \in calls' : /\ c.command = params'.mode
                          /\ PausesAt(c.iteration)'
                          /\ DecisionAt(c.iteration)'.value = params'.mode
    BY <1>8, <1>1, CallsAccounted DEF FinishCommand
  <2>5. \A i \in DOMAIN commanded' :
           PausesAt(i)' /\ DecisionAt(i)'.value = params'.mode
    BY <2>1, <2>2, <2>3, <1>3
  <2> QED BY <2>3, <2>4, <2>5, <1>2, <1>5 DEF LogInv
<1>9. CASE AttemptCommand
  <2>1. UNCHANGED <<waits, described, commanded>>
    BY <1>9 DEF AttemptCommand, logVars
  <2>2. \A c \in calls' : /\ c.command = params'.mode
                          /\ PausesAt(c.iteration)'
                          /\ DecisionAt(c.iteration)'.value = params'.mode
    BY <1>9, <1>1, CallsAccounted DEF AttemptCommand
  <2> QED BY <2>1, <2>2, <1>2, <1>3, <1>5 DEF LogInv
<1>10. CASE WaitElapses
  <2>1. waits' = waits \cup {iteration} /\ UNCHANGED <<described, commanded, calls>>
    BY <1>10 DEF WaitElapses, worldVars
  <2>2. ReadyToWait(iteration)
    BY <1>10 DEF WaitElapses, IInv, LocalInv
  <2>3. \A i \in waits' : ReadyToWait(i)'
    <3> SUFFICES ASSUME NEW i \in waits' PROVE ReadyToWait(i)'
      OBVIOUS
    <3>1. ReadyToWait(i)
      BY <2>1, <2>2 DEF IInv, LogInv
    <3> QED BY <3>1, <1>1, AccountsPersist
  <2> QED BY <2>1, <2>3, <1>3, <1>4, <1>5 DEF LogInv
<1>11. CASE UNCHANGED <<described, commanded, waits, calls>>
  BY <1>11, <1>2, <1>3, <1>4, <1>5 DEF LogInv
<1>12. ReplayDescribe \/ ReplayCommand \/ ReplayWait \/ ReplayPost \/ AttemptPost
         \/ FinishPost \/ Settle \/ Crash \/ StatusDrifts \/ Done \/ UNCHANGED vars
         => UNCHANGED <<described, commanded, waits, calls>>
  BY DEF ReplayDescribe, ReplayCommand, ReplayWait, ReplayPost, AttemptPost,
     FinishPost, Settle, Crash, StatusDrifts, Done, vars, logVars, worldVars
<1> QED
  BY <1>7, <1>8, <1>9, <1>10, <1>11, <1>12 DEF Next, Progress

-------------------------------------------------------------------------------
(* Every step keeps the local variables in agreement with the log. *)

\* Where an observation leads, told in terms of the log.
LEMMA ProceedOutcome ==
    ASSUME IInv, Extends, pc = "describe",
           NEW observation \in Observations, Proceed(observation),
           iteration' = iteration, elapsedWaitSeconds' = elapsedWaitSeconds,
           iteration \in DOMAIN described', described'[iteration] = observation
    PROVE  \/ /\ pc' = "return"
              /\ result' = "step"
              /\ FailsAt(iteration)'
              /\ markers' = markers
           \/ /\ EndsWith(iteration, result)'
              /\ result' \in Results \ {"step"}
              /\ pc' = IF PostsMessage(result)' THEN "post" ELSE "return"
              /\ markers' = markers \cup MarkersFor(result')
           \/ /\ pc' = "wait"
              /\ ReadyToWait(iteration)'
              /\ result' = Absent
              /\ markers' = markers
           \/ /\ pc' = "command"
              /\ PausesAt(iteration)'
              /\ DecisionAt(iteration)'.value = params'.mode
              /\ result' = Absent
              /\ markers' = markers
<1> DEFINE step == nextWaitStep(params.mode, observation, elapsedWaitSeconds,
                                params.interval, params.max)
<1>1. TypeOK /\ result = Absent
  BY DEF IInv, LocalInv
<1>2. DecisionAt(iteration)' = step
  BY DEF DecisionAt, Extends, IInv, LocalInv
<1>3. /\ step.kind \in {"finish", "throw", "pause"}
      /\ step.kind \in {"finish", "throw"} => step.value \in Results \ {"step"}
      /\ step.kind = "pause" => step.value \in {"none", params.mode}
  BY <1>1, DecisionType
<1>4. params' = params /\ \A o : PostsMessage(o)' = PostsMessage(o)
  BY AccountsPersist DEF Extends
<1> HIDE DEF step
<1>5. CASE observation = StepFailed
  <2>1. FailsAt(iteration)'
    BY <1>5 DEF FailsAt
  <2>2. LeaveLoop("step")
    BY <1>5 DEF Proceed
  <2>3. ~ PostsMessage("step") /\ MarkersFor("step") = {}
    BY DEF PostsMessage, MarkersFor
  <2> QED BY <2>1, <2>2, <2>3 DEF LeaveLoop
<1>6. CASE observation # StepFailed /\ step.kind \in {"finish", "throw"}
  <2>1. LeaveLoop(step.value)
    BY <1>6 DEF Proceed, step
  <2>2. result' = step.value
    BY <2>1 DEF LeaveLoop
  <2>3. EndsWith(iteration, result)'
    BY <1>2, <1>6, <2>2 DEF EndsWith
  <2> QED BY <2>1, <2>2, <2>3, <1>3, <1>4, <1>6 DEF LeaveLoop
<1>7. CASE observation # StepFailed /\ step.kind = "pause"
  <2>1. /\ pc' = IF step.value = "none" THEN "wait" ELSE "command"
        /\ UNCHANGED <<result, markers>>
    BY <1>7 DEF Proceed, step
  <2>2. PausesAt(iteration)'
    BY <1>2, <1>7 DEF PausesAt
  <2> QED BY <2>1, <2>2, <1>1, <1>2, <1>3, <1>4, <1>7 DEF ReadyToWait
<1> QED BY <1>3, <1>5, <1>6, <1>7

\* Where an invocation is, and why, when a command step has returned.
LEMMA AfterCommandOutcome ==
    ASSUME IInv, Extends, pc = "command",
           NEW outcome \in {"done", StepFailed}, AfterCommand(outcome),
           iteration' = iteration,
           iteration \in DOMAIN commanded', commanded'[iteration] = outcome
    PROVE  /\ markers' = markers
           /\ \/ pc' = "return" /\ result' = "step" /\ FailsAt(iteration)'
              \/ pc' = "wait" /\ result' = Absent /\ ReadyToWait(iteration)'
<1>1. CASE outcome = StepFailed
  <2>1. LeaveLoop("step")
    BY <1>1 DEF AfterCommand
  <2>2. ~ PostsMessage("step") /\ MarkersFor("step") = {}
    BY DEF PostsMessage, MarkersFor
  <2>3. FailsAt(iteration)'
    BY <1>1 DEF FailsAt
  <2> QED BY <2>1, <2>2, <2>3 DEF LeaveLoop
<1>2. CASE outcome # StepFailed
  <2>1. PausesAt(iteration)'
    BY AccountsPersist DEF IInv, LocalInv
  <2>2. ReadyToWait(iteration)'
    BY <1>2, <2>1 DEF ReadyToWait
  <2> QED BY <1>2, <2>2 DEF AfterCommand, IInv, LocalInv
<1> QED BY <1>1, <1>2

\* Where an invocation is, and why, when a Slack step has returned.
LEMMA AfterPostOutcome ==
    ASSUME IInv, Extends, pc = "post",
           NEW outcome \in {"done", StepFailed}, AfterPost(outcome),
           iteration' = iteration,
           SlackStepFor(result) \in DOMAIN posted',
           posted'[SlackStepFor(result)] = outcome
    PROVE  /\ pc' = "return"
           /\ \/ /\ outcome = "done"
                 /\ result' = result
                 /\ EndsWith(iteration, result)'
              \/ /\ outcome = StepFailed
                 /\ result' = "step"
                 /\ FailsAt(iteration)'
<1>1. /\ EndsWith(iteration, result)
      /\ PostsMessage(result)
      /\ result \in Results
  BY DEF IInv, LocalInv, TypeOK
<1>2. /\ \A o : EndsWith(iteration, o) => EndsWith(iteration, o)'
      /\ \A o : PostsMessage(o)' = PostsMessage(o)
  BY AccountsPersist
<1>3. CASE outcome = "done"
  <2>1. pc' = "return" /\ result' = result
    BY <1>3 DEF AfterPost, StepFailed
  <2>2. EndsWith(iteration, result)'
    BY <1>1, <1>2, <2>1 DEF EndsWith
  <2> QED BY <1>3, <2>1, <2>2
<1>4. CASE outcome = StepFailed
  <2>1. FailsAt(iteration)'
    <3> DEFINE r == result
    <3>1. \E o \in Results :
             /\ EndsWith(iteration, o)'
             /\ PostsMessage(o)'
             /\ SlackStepFor(o) \in DOMAIN posted'
             /\ posted'[SlackStepFor(o)] = StepFailed
      BY <1>1, <1>2, <1>4
    <3> QED BY <3>1 DEF FailsAt
  <2> QED BY <1>4, <2>1 DEF AfterPost
<1> QED BY <1>3, <1>4

\* The counters follow the log: a new iteration begins only after the wait of
\* the one before, whether or not this invocation lived through it.
LEMMA CountersFollow ==
    ASSUME IInv, Extends, NextIteration \/ StartOver,
           NextIteration => pc = "wait" /\ iteration \in waits'
    PROVE  /\ pc' = "describe"
           /\ result' = Absent
           /\ elapsedWaitSeconds' = iteration' * params'.interval
           /\ \A j \in 0 .. (iteration' - 1) : j \in waits'
<1>1. params' = params /\ waits \subseteq waits'
  BY DEF Extends
<1>2. /\ iteration \in Nat
      /\ params.interval \in Nat
      /\ elapsedWaitSeconds = iteration * params.interval
      /\ \A j \in 0 .. (iteration - 1) : j \in waits
  BY ParamsType DEF IInv, LocalInv, TypeOK
<1>3. CASE NextIteration
  <2>1. elapsedWaitSeconds' = iteration' * params'.interval
    BY <1>1, <1>2, <1>3 DEF NextIteration
  <2>2. \A j \in 0 .. iteration : j \in waits'
    BY <1>1, <1>2, <1>3
  <2> QED BY <1>3, <2>1, <2>2, <1>2 DEF NextIteration, IInv, LocalInv
<1>4. CASE StartOver
  BY <1>1, <1>2, <1>4 DEF StartOver
<1> QED BY <1>3, <1>4

\* Every step preserves the agreement of an invocation with the log: LocalInv.
LEMMA LocalStep == IInv /\ [Next]_vars => LocalInv'
<1> SUFFICES ASSUME IInv, [Next]_vars PROVE LocalInv'
  OBVIOUS
<1>1. Extends
  BY NextExtends
<1>2. UNCHANGED <<iteration, elapsedWaitSeconds>> =>
         /\ elapsedWaitSeconds' = iteration' * params'.interval
         /\ \A j \in 0 .. (iteration' - 1) : j \in waits'
  BY <1>1 DEF Extends, IInv, LocalInv
<1>3. settled = IF pc = "settled" THEN result ELSE Absent
  BY DEF IInv, LocalInv
<1>4. CASE Describe
  <2>1. PICK o \in ObservationsOf(params.type, status) :
           described' = Checkpoint(described, iteration, o) /\ Proceed(o)
    BY <1>4 DEF Describe
  <2>2. o \in Observations
    BY <2>1, ObservationsOfType DEF IInv, TypeOK
  <2>3. iteration \in DOMAIN described' /\ described'[iteration] = o
    BY <2>1 DEF Checkpoint
  <2>4. pc = "describe" /\ UNCHANGED <<iteration, elapsedWaitSeconds, settled>>
    BY <1>4 DEF Describe
  <2> QED BY <2>1, <2>2, <2>3, <2>4, <1>1, <1>2, <1>3, ProceedOutcome DEF LocalInv, Results
<1>5. CASE ReplayDescribe
  <2>1. /\ pc = "describe"
        /\ UNCHANGED <<iteration, elapsedWaitSeconds, settled, described>>
        /\ iteration \in DOMAIN described
        /\ Proceed(described[iteration])
    BY <1>5 DEF ReplayDescribe, logVars
  <2>2. described[iteration] \in Observations
    BY <2>1 DEF IInv, TypeOK
  <2> QED BY <2>1, <2>2, <1>1, <1>2, <1>3, ProceedOutcome DEF LocalInv, Results
<1>6. CASE FinishCommand
  <2>1. PICK o \in {"done", StepFailed} :
           commanded' = Checkpoint(commanded, iteration, o) /\ AfterCommand(o)
    BY <1>6 DEF FinishCommand
  <2>2. iteration \in DOMAIN commanded' /\ commanded'[iteration] = o
    BY <2>1 DEF Checkpoint
  <2>3. pc = "command" /\ UNCHANGED <<iteration, elapsedWaitSeconds, settled>>
    BY <1>6 DEF FinishCommand, CallRDS
  <2> QED BY <2>1, <2>2, <2>3, <1>1, <1>2, <1>3, AfterCommandOutcome DEF LocalInv
<1>7. CASE ReplayCommand
  <2>1. /\ pc = "command"
        /\ UNCHANGED <<iteration, elapsedWaitSeconds, settled, commanded>>
        /\ iteration \in DOMAIN commanded
        /\ AfterCommand(commanded[iteration])
    BY <1>7 DEF ReplayCommand, logVars
  <2>2. commanded[iteration] \in {"done", StepFailed}
    BY <2>1 DEF IInv, TypeOK
  <2> QED BY <2>1, <2>2, <1>1, <1>2, <1>3, AfterCommandOutcome DEF LocalInv
<1>8. CASE ReplayWait
  <2>1. /\ NextIteration
        /\ pc = "wait"
        /\ iteration \in waits'
        /\ settled' = settled
    BY <1>8 DEF ReplayWait, logVars
  <2> QED BY <2>1, <1>1, <1>3, CountersFollow DEF LocalInv
<1>9. CASE WaitElapses
  <2>1. /\ NextIteration \/ StartOver
        /\ pc = "wait"
        /\ iteration \in waits'
        /\ settled' = settled
    BY <1>9 DEF WaitElapses
  <2> QED BY <2>1, <1>1, <1>3, CountersFollow DEF LocalInv
<1>10. CASE Crash
  <2>1. StartOver /\ settled' = settled /\ pc # "settled"
    BY <1>10 DEF Crash, logVars
  <2>2. /\ pc' = "describe"
        /\ result' = Absent
        /\ elapsedWaitSeconds' = iteration' * params'.interval
        /\ \A j \in 0 .. (iteration' - 1) : j \in waits'
    <3>1. ~ NextIteration
      BY <2>1 DEF StartOver, NextIteration, IInv, TypeOK
    <3> QED BY <2>1, <3>1, <1>1, CountersFollow
  <2> QED BY <2>1, <2>2, <1>3 DEF LocalInv
<1>11. CASE FinishPost
  <2>1. PICK o \in {"done", StepFailed} :
           posted' = Checkpoint(posted, SlackStepFor(result), o) /\ AfterPost(o)
    BY <1>11 DEF FinishPost
  <2>2. /\ SlackStepFor(result) \in DOMAIN posted'
        /\ posted'[SlackStepFor(result)] = o
    BY <2>1 DEF Checkpoint
  <2>3. pc = "post" /\ UNCHANGED <<iteration, elapsedWaitSeconds, settled>>
    BY <1>11 DEF FinishPost
  <2>4. result # Absent
    BY <2>3 DEF IInv, LocalInv
  <2> QED BY <2>1, <2>2, <2>3, <2>4, <1>1, <1>2, <1>3, AfterPostOutcome DEF LocalInv
<1>12. CASE ReplayPost
  <2>1. /\ pc = "post"
        /\ UNCHANGED <<iteration, elapsedWaitSeconds, settled, posted>>
        /\ SlackStepFor(result) \in DOMAIN posted
        /\ AfterPost(posted[SlackStepFor(result)])
    BY <1>12 DEF ReplayPost, logVars
  <2>2. posted[SlackStepFor(result)] \in {"done", StepFailed}
    BY <2>1 DEF IInv, TypeOK
  <2>3. result # Absent
    BY <2>1 DEF IInv, LocalInv
  <2> QED BY <2>1, <2>2, <2>3, <1>1, <1>2, <1>3, AfterPostOutcome DEF LocalInv
<1>13. CASE Settle
  <2>1. /\ pc = "return"
        /\ pc' = "settled"
        /\ settled' = result
        /\ UNCHANGED <<iteration, elapsedWaitSeconds, result>>
    BY <1>13 DEF Settle
  <2>2. \/ EndsWith(iteration, result)'
        \/ result = "step" /\ FailsAt(iteration)'
    BY <2>1, <1>1, AccountsPersist DEF IInv, LocalInv, EndsWith
  <2>3. result # Absent
    BY <2>1 DEF IInv, LocalInv
  <2> QED BY <2>1, <2>2, <2>3, <1>2 DEF LocalInv
<1>14. CASE UNCHANGED <<localVars, settled>>
  <2>1. UNCHANGED <<pc, iteration, elapsedWaitSeconds, result, settled>>
    BY <1>14 DEF localVars
  <2>2. /\ PausesAt(iteration) =>
              PausesAt(iteration)' /\ DecisionAt(iteration)' = DecisionAt(iteration)
        /\ ReadyToWait(iteration) => ReadyToWait(iteration)'
        /\ EndsWith(iteration, result) => EndsWith(iteration, result)'
        /\ PostsMessage(result)' = PostsMessage(result)
        /\ FailsAt(iteration) => FailsAt(iteration)'
    BY <2>1, <1>1, AccountsPersist DEF PausesAt
  <2> QED BY <2>1, <2>2, <1>1, <1>2 DEF IInv, LocalInv, Extends
<1>15. AttemptCommand \/ AttemptPost \/ StatusDrifts \/ Done \/ UNCHANGED vars
         => UNCHANGED <<localVars, settled>>
  BY DEF AttemptCommand, AttemptPost, StatusDrifts, Done, vars, logVars
<1> QED
  BY <1>4, <1>5, <1>6, <1>7, <1>8, <1>9, <1>10, <1>11, <1>12, <1>13, <1>14,
     <1>15 DEF Next, Progress

-------------------------------------------------------------------------------
(* Every step keeps the reports in agreement with the log. *)

\* Only the newest iteration can end the loop: the earlier ones were waited for.
LEMMA EndsOnce ==
    ASSUME TypeOK, LogInv, NEW i, NEW j, NEW a, NEW b, EndsWith(i, a), EndsWith(j, b)
    PROVE  i = j /\ a = b
<1>1. i \in Nat /\ j \in Nat /\ i \in DOMAIN described /\ j \in DOMAIN described
  BY DEF EndsWith, TypeOK
<1>2. \A k \in waits : ~ EndsWith(k, a) /\ ~ EndsWith(k, b)
  BY DEF LogInv, ReadyToWait, PausesAt, EndsWith
<1>3. ~ (i < j)
  BY <1>1, <1>2 DEF LogInv
<1>4. ~ (j < i)
  BY <1>1, <1>2 DEF LogInv
<1> QED BY <1>1, <1>3, <1>4 DEF EndsWith

\* Every step preserves that what was reported has its reason in the log.
LEMMA ReportStep == IInv /\ [Next]_vars => ReportInv'
<1> SUFFICES ASSUME IInv, [Next]_vars PROVE ReportInv'
  OBVIOUS
<1>1. Extends
  BY NextExtends
\* What was reported for a reason was reported for a reason that still stands.
<1>2. \A m \in markers :
         \E i \in DOMAIN described' : \E outcome \in Results :
             EndsWith(i, outcome)' /\ m \in MarkersFor(outcome)
  BY <1>1, AccountsPersist DEF IInv, ReportInv, Extends
<1>3. \A m \in messages :
         \E i \in DOMAIN described' : EndsWith(i, m)' /\ PostsMessage(m)'
  BY <1>1, AccountsPersist DEF IInv, ReportInv, Extends
<1>4. \A s \in DOMAIN posted : posted[s] = "done" =>
         \E m \in messages : SlackStepFor(m) = s
  BY DEF IInv, ReportInv
<1>5. pc \in {"post", "return", "settled"} /\ result # "step" =>
         MarkersFor(result) \subseteq markers
  BY DEF IInv, ReportInv
<1>6. pc \in {"return", "settled"} /\ result # "step" /\ PostsMessage(result) =>
         result \in messages
  BY DEF IInv, ReportInv
<1>7. \A o : PostsMessage(o)' = PostsMessage(o)
  BY <1>1, AccountsPersist
<1>19. \A m \in messages : MarkersFor(m) \subseteq markers
  BY DEF IInv, ReportInv
\* The loop goes on or is left: a marker may be written.
<1>8. ASSUME NEW o \in Observations, pc = "describe", Proceed(o),
             UNCHANGED <<iteration, elapsedWaitSeconds, messages, posted>>,
             iteration \in DOMAIN described', described'[iteration] = o
      PROVE  ReportInv'
  <2>1. \/ /\ markers' = markers
           /\ pc' \in {"wait", "command", "return"}
           /\ pc' = "return" => result' = "step"
        \/ /\ EndsWith(iteration, result)'
           /\ result' \in Results
           /\ pc' = IF PostsMessage(result)' THEN "post" ELSE "return"
           /\ markers' = markers \cup MarkersFor(result')
    BY <1>1, <1>8, ProceedOutcome
  <2>2. \A m \in markers' :
           \E i \in DOMAIN described' : \E outcome \in Results :
               EndsWith(i, outcome)' /\ m \in MarkersFor(outcome)
    BY <2>1, <1>2, <1>8
  <2> QED BY <2>1, <2>2, <1>3, <1>4, <1>19, <1>8 DEF ReportInv
<1>9. CASE Describe
  <2>1. PICK o \in ObservationsOf(params.type, status) :
           described' = Checkpoint(described, iteration, o) /\ Proceed(o)
    BY <1>9 DEF Describe
  <2>2. o \in Observations
    BY <2>1, ObservationsOfType DEF IInv, TypeOK
  <2>3. iteration \in DOMAIN described' /\ described'[iteration] = o
    BY <2>1 DEF Checkpoint
  <2> QED BY <2>1, <2>2, <2>3, <1>8, <1>9 DEF Describe
<1>10. CASE ReplayDescribe
  <2>1. /\ iteration \in DOMAIN described
        /\ Proceed(described[iteration])
        /\ pc = "describe"
        /\ UNCHANGED <<iteration, elapsedWaitSeconds, messages, posted, described>>
    BY <1>10 DEF ReplayDescribe, logVars
  <2>2. described[iteration] \in Observations
    BY <2>1 DEF IInv, TypeOK
  <2> QED BY <2>1, <2>2, <1>8
<1>11. CASE FinishCommand \/ ReplayCommand
  <2>1. PICK o \in {"done", StepFailed} :
           /\ AfterCommand(o)
           /\ iteration \in DOMAIN commanded'
           /\ commanded'[iteration] = o
    <3>1. CASE FinishCommand
      BY <3>1 DEF FinishCommand, Checkpoint
    <3>2. CASE ReplayCommand
      BY <3>2 DEF ReplayCommand, logVars, IInv, TypeOK
    <3> QED BY <1>11, <3>1, <3>2
  <2>2. pc = "command" /\ UNCHANGED <<iteration, messages, posted>>
    BY <1>11 DEF FinishCommand, ReplayCommand, CallRDS, logVars
  <2>3. /\ markers' = markers
        /\ pc' \in {"wait", "return"}
        /\ pc' = "return" => result' = "step"
    BY <2>1, <2>2, <1>1, AfterCommandOutcome
  <2> QED BY <2>2, <2>3, <1>2, <1>3, <1>4, <1>19 DEF ReportInv
<1>12. CASE ReplayWait \/ WaitElapses \/ Crash
  <2>1. pc' = "describe" /\ UNCHANGED <<markers, messages, posted>>
    BY <1>12 DEF ReplayWait, WaitElapses, Crash, NextIteration, StartOver,
       logVars, worldVars
  <2> QED BY <2>1, <1>2, <1>3, <1>4, <1>19 DEF ReportInv
<1>13. CASE AttemptPost
  <2>1. /\ pc = "post"
        /\ messages' = messages \cup {result}
        /\ UNCHANGED <<pc, result, iteration, markers, posted>>
    BY <1>13 DEF AttemptPost, Deliver, logVars, localVars
  <2>2. EndsWith(iteration, result)' /\ PostsMessage(result)'
    BY <2>1, <1>1, <1>7, AccountsPersist DEF IInv, LocalInv, EndsWith
  <2>3. iteration' \in DOMAIN described'
    BY <2>2 DEF EndsWith
  <2>4. \A m \in messages' :
           \E i \in DOMAIN described' : EndsWith(i, m)' /\ PostsMessage(m)'
    BY <2>1, <2>2, <2>3, <1>3
  <2>5. \A m \in messages' : MarkersFor(m) \subseteq markers'
    BY <2>1, <1>5, <1>19 DEF IInv, LocalInv, PostsMessage
  <2> QED BY <2>1, <2>4, <2>5, <1>2, <1>4, <1>5 DEF ReportInv
<1>14. CASE FinishPost
  <2>1. PICK o \in {"done", StepFailed} :
           /\ posted' = Checkpoint(posted, SlackStepFor(result), o)
           /\ AfterPost(o)
           /\ IF o = "done" THEN Deliver ELSE UNCHANGED messages
    BY <1>14 DEF FinishPost
  <2>2. /\ pc = "post" /\ UNCHANGED <<iteration, markers>>
        /\ \A s \in DOMAIN posted' :
              posted'[s] = IF s = SlackStepFor(result) THEN o ELSE posted[s]
        /\ \A s \in DOMAIN posted' : s = SlackStepFor(result) \/ s \in DOMAIN posted
        /\ SlackStepFor(result) \in DOMAIN posted'
    BY <1>14, <2>1 DEF FinishPost, Checkpoint
  <2>3. EndsWith(iteration, result) /\ PostsMessage(result)
    BY <2>2 DEF IInv, LocalInv
  <2>4. messages' = IF o = "done" THEN messages \cup {result} ELSE messages
    BY <2>1 DEF Deliver, StepFailed
  <2>5. \A m \in messages' :
           \E i \in DOMAIN described' : EndsWith(i, m)' /\ PostsMessage(m)'
    <3>1. PICK m : m = result
      OBVIOUS
    <3>2. \A n \in messages' : n \in messages \/ n = m
      BY <2>4, <3>1
    <3>3. EndsWith(iteration, m)' /\ PostsMessage(m)'
      BY <1>1, <1>7, <2>2, <2>3, <3>1, AccountsPersist
    <3>4. iteration' \in DOMAIN described'
      BY <3>3 DEF EndsWith
    <3> QED BY <1>3, <3>2, <3>3, <3>4
  <2>6. /\ pc' = "return"
        /\ result' = IF o = "done" THEN result ELSE "step"
    BY <2>1 DEF AfterPost, StepFailed
  <2>7. \A s \in DOMAIN posted' : posted'[s] = "done" =>
           \E m \in messages' : SlackStepFor(m) = s
    BY <2>2, <2>4, <1>4 DEF StepFailed
  <2>8. result # "step"
    BY <2>3 DEF PostsMessage
  <2>9. \A m \in messages' : MarkersFor(m) \subseteq markers'
    BY <2>2, <2>4, <2>8, <1>5, <1>19
  <2> QED BY <2>2, <2>4, <2>5, <2>6, <2>7, <2>9, <1>2, <1>5 DEF ReportInv
<1>15. CASE ReplayPost
  <2>1. /\ pc = "post"
        /\ UNCHANGED <<messages, markers, posted, iteration>>
        /\ SlackStepFor(result) \in DOMAIN posted
        /\ AfterPost(posted[SlackStepFor(result)])
    BY <1>15 DEF ReplayPost, logVars, worldVars
  <2>2. posted[SlackStepFor(result)] \in {"done", StepFailed}
    BY <2>1 DEF IInv, TypeOK
  <2>3. CASE posted[SlackStepFor(result)] = "done"
    \* The message that was recorded is this one: there is only one to post.
    <3>1. PICK m \in messages : SlackStepFor(m) = SlackStepFor(result)
      BY <2>1, <2>3, <1>4
    <3>2. PICK i \in DOMAIN described : EndsWith(i, m)
      BY DEF IInv, ReportInv
    <3>3. EndsWith(iteration, result)
      BY <2>1 DEF IInv, LocalInv
    <3>4. m = result
      BY <3>2, <3>3, EndsOnce DEF IInv
    <3>5. result' = result /\ pc' = "return"
      BY <2>1, <2>3 DEF AfterPost, StepFailed
    <3> QED BY <2>1, <3>1, <3>4, <3>5, <1>2, <1>3, <1>4, <1>19, <1>5 DEF ReportInv
  <2>4. CASE posted[SlackStepFor(result)] = StepFailed
    <3>1. result' = "step" /\ pc' = "return"
      BY <2>1, <2>4 DEF AfterPost
    <3> QED BY <2>1, <3>1, <1>2, <1>3, <1>4, <1>19 DEF ReportInv
  <2> QED BY <2>2, <2>3, <2>4
<1>16. CASE Settle
  <2>1. pc = "return" /\ pc' = "settled" /\ UNCHANGED <<result, markers, messages, posted>>
    BY <1>16 DEF Settle, worldVars
  <2> QED BY <2>1, <1>2, <1>3, <1>4, <1>19, <1>5, <1>6, <1>7 DEF ReportInv
<1>17. CASE UNCHANGED <<pc, result, markers, messages, posted>>
  BY <1>17, <1>2, <1>3, <1>4, <1>19, <1>5, <1>6, <1>7 DEF ReportInv
<1>18. AttemptCommand \/ StatusDrifts \/ Done \/ UNCHANGED vars
         => UNCHANGED <<pc, result, markers, messages, posted>>
  BY DEF AttemptCommand, StatusDrifts, Done, vars, logVars, localVars, worldVars
<1> QED
  BY <1>9, <1>10, <1>11, <1>12, <1>13, <1>14, <1>15, <1>16, <1>17, <1>18
  DEF Next, Progress

-------------------------------------------------------------------------------
(* The theorems. *)

\* The first invocation begins in agreement with an empty log.
LEMMA InitInv == Init => IInv
<1> SUFFICES ASSUME Init PROVE IInv
  OBVIOUS
<1>1. params.interval \in Nat
  BY ParamsType DEF Init
<1>2. TypeOK
  BY DEF Init, TypeOK, EmptyLog
<1>3. LogInv
  BY DEF Init, LogInv, EmptyLog
<1>4. LocalInv
  BY <1>1 DEF Init, LocalInv
<1>5. ReportInv
  BY DEF Init, ReportInv, EmptyLog
<1> QED BY <1>2, <1>3, <1>4, <1>5 DEF IInv

\* The inductive invariant holds in every behaviour: whatever RDS does and
\* however often an invocation dies, the log accounts for what was done.
THEOREM Inductive == Spec => []IInv
<1>1. IInv /\ [Next]_vars => IInv'
  BY TypeStep, LogStep, LocalStep, ReportStep DEF IInv
<1> QED BY <1>1, InitInv, PTL DEF Spec

\* Type correctness of the durable loop and its checkpoint log.
THEOREM TypeCorrect == Spec => []TypeOK
<1>1. IInv => TypeOK
  BY DEF IInv
<1> QED BY <1>1, Inductive, PTL

\* The waits of one resource never exceed its maximum, across all replays.
THEOREM BudgetTheorem == Spec => []WaitBudgetRespected
<1>1. IInv => WaitBudgetRespected
  <2> SUFFICES ASSUME IInv, NEW i \in waits
               PROVE  (i + 1) * params.interval <= params.max
    BY DEF WaitBudgetRespected
  <2>1. PausesAt(i) /\ i \in DOMAIN described /\ i \in Nat
    BY DEF IInv, LogInv, ReadyToWait, PausesAt, TypeOK
  <2>2. i * params.interval + params.interval <= params.max
    BY <2>1, DecisionAtCases DEF IInv, PausesAt, Finish, Throw
  <2> QED BY <2>1, <2>2, ParamsType DEF IInv, TypeOK
<1> QED BY <1>1, Inductive, PTL

\* Recorded results are never replaced and the outcome is final, so a replay
\* takes the decisions of the invocations before it.
LEMMA StepKeepsLog == IInv /\ [Next]_vars => LogIsKept
<1> SUFFICES ASSUME IInv, [Next]_vars PROVE LogIsKept
  OBVIOUS
<1>1. Extends
  BY NextExtends
<1>2. settled # Absent => settled' = settled
  <2>1. settled # Absent => pc = "settled"
    BY DEF IInv, LocalInv
  <2>2. Settle => pc # "settled"
    BY DEF Settle
  <2>3. Settle \/ settled' = settled
    BY DEF Next, Progress, Describe, ReplayDescribe, FinishCommand,
       ReplayCommand, AttemptCommand, ReplayWait, WaitElapses, ReplayPost,
       FinishPost, AttemptPost, Crash, StatusDrifts, Done, vars, logVars
  <2> QED BY <2>1, <2>2, <2>3
<1> QED BY <1>1, <1>2 DEF Extends, LogIsKept

-------------------------------------------------------------------------------
(* What the end of the loop, and a call, say about the whole log. *)

\* An iteration that is not waited for is the newest one in the log.
LEMMA NewestIteration ==
    ASSUME IInv, NEW n \in DOMAIN described, ~ ReadyToWait(n)
    PROVE  /\ DOMAIN described = 0 .. n
           /\ waits = 0 .. (n - 1)
<1>1. n \in Nat /\ n \notin waits
  BY DEF IInv, LogInv, TypeOK
<1>2. \A i \in DOMAIN described : i \in 0 .. n
  BY <1>1 DEF IInv, LogInv, TypeOK
<1>3. \A j \in 0 .. (n - 1) : j \in waits
  BY DEF IInv, LogInv
<1>4. \A j \in waits : j \in DOMAIN described
  BY DEF IInv, LogInv, ReadyToWait, PausesAt
<1>5. \A j \in waits : j \in 0 .. (n - 1)
  BY <1>1, <1>2, <1>4
<1>6. \A j \in 0 .. n : j \in DOMAIN described
  BY <1>1, <1>3, <1>4
<1>7. DOMAIN described = 0 .. n
  BY <1>2, <1>6
<1>8. waits = 0 .. (n - 1)
  BY <1>3, <1>5
<1> QED BY <1>7, <1>8

\* The iteration that ends the loop, or fails, is the newest one in the log.
LEMMA EndIsNewest ==
    ASSUME IInv, NEW n, NEW outcome, EndsWith(n, outcome) \/ FailsAt(n)
    PROVE  /\ n \in DOMAIN described
           /\ ~ ReadyToWait(n)
           /\ DOMAIN described = 0 .. n
           /\ waits = 0 .. (n - 1)
<1>1. n \in DOMAIN described /\ ~ ReadyToWait(n)
  <2>1. CASE EndsWith(n, outcome)
    BY <2>1 DEF EndsWith, ReadyToWait, PausesAt
  <2>2. CASE n \in DOMAIN described /\ described[n] = StepFailed
    BY <2>2 DEF ReadyToWait, PausesAt
  <2>3. CASE n \in DOMAIN commanded /\ commanded[n] = StepFailed
    <3>1. PausesAt(n) /\ DecisionAt(n).value = params.mode /\ params.mode # "none"
      BY <2>3, ParamsType DEF IInv, LogInv, TypeOK, Modes
    <3> QED BY <2>3, <3>1 DEF ReadyToWait, PausesAt, StepFailed
  <2>4. CASE \E o \in Results : EndsWith(n, o)
    BY <2>4 DEF EndsWith, ReadyToWait, PausesAt
  <2> QED BY <2>1, <2>2, <2>3, <2>4 DEF FailsAt
<1> QED BY <1>1, NewestIteration

\* A settled resource ended, or failed, in the iteration it was in.
LEMMA SettledEnds ==
    ASSUME IInv, settled # Absent
    PROVE  /\ settled = result
           /\ iteration \in Nat
           /\ EndsWith(iteration, settled) \/ (settled = "step" /\ FailsAt(iteration))
BY DEF IInv, LocalInv, TypeOK

\* A call was decided by nextWaitStep on what its iteration observed.
LEMMA CallDecided ==
    ASSUME IInv, NEW c \in calls
    PROVE  /\ c.iteration \in DOMAIN described
           /\ c.command = params.mode
           /\ described[c.iteration] = SourceOf(params.mode)
           /\ c.iteration * params.interval + params.interval <= params.max
           /\ DecisionAt(c.iteration) = Pause(params.mode)
<1>1. /\ c.iteration \in DOMAIN described
      /\ c.command = params.mode
      /\ DecisionAt(c.iteration).kind = "pause"
      /\ DecisionAt(c.iteration).value = params.mode
  BY DEF IInv, LogInv, PausesAt
<1>2. params.mode # "none"
  BY ParamsType DEF IInv, TypeOK, Modes
<1> QED BY <1>1, <1>2, DecisionAtCases DEF IInv, Finish, Pause, Throw

\* A resource is given up on only after every whole interval of its maximum.
THEOREM GiveUpTheorem == Spec => []GivesUpOnlyWhenSpent
<1>1. IInv => GivesUpOnlyWhenSpent
  <2> SUFFICES ASSUME IInv, settled = "timeout" PROVE GivesUpOnlyWhenSpent
    BY DEF GivesUpOnlyWhenSpent
  <2>1. iteration \in Nat /\ EndsWith(iteration, "timeout")
    BY SettledEnds
  <2>2. iteration \in DOMAIN described /\ waits = 0 .. (iteration - 1)
    BY <2>1, EndIsNewest
  <2>3. /\ described[iteration] \in {SourceOf(params.mode)} \cup TRANSITIONING_STATES
        /\ iteration * params.interval + params.interval > params.max
    <3>1. DecisionAt(iteration).value = "timeout"
      BY <2>1 DEF EndsWith
    <3>2. params.mode # "timeout" /\ TargetOf(params.mode) # "timeout"
      BY ParamsType DEF IInv, TypeOK, Modes, TargetOf
    <3> QED BY <2>2, <3>1, <3>2, DecisionAtCases DEF IInv, Finish, Pause, Throw
  <2>4. (iteration + 1) * params.interval > params.max
    BY <2>1, <2>3, ParamsType DEF IInv, TypeOK
  <2> QED BY <2>2, <2>3, <2>4 DEF GivesUpOnlyWhenSpent
<1> QED BY <1>1, Inductive, PTL

\* RDS is called only on a recorded observation of the opposite state, after
\* all earlier waits, with an interval left in the budget.
THEOREM CommandTheorem == Spec => []CommandJustified
<1>1. IInv => CommandJustified
  <2> SUFFICES ASSUME IInv, NEW c \in calls
               PROVE  /\ c.command = params.mode
                      /\ c.iteration \in DOMAIN described
                      /\ described[c.iteration] = SourceOf(params.mode)
                      /\ \A j \in 0 .. (c.iteration - 1) : j \in waits
                      /\ (c.iteration + 1) * params.interval <= params.max
    BY DEF CommandJustified
  <2>1. c.iteration \in Nat
    BY CallDecided DEF IInv, TypeOK
  <2>2. (c.iteration + 1) * params.interval <= params.max
    BY <2>1, CallDecided, ParamsType DEF IInv, TypeOK
  <2>3. \A j \in 0 .. (c.iteration - 1) : j \in waits
    BY CallDecided DEF IInv, LogInv
  <2> QED BY <2>2, <2>3, CallDecided
<1> QED BY <1>1, Inductive, PTL

\* A success is the target of the mode, seen by the last describe step, after
\* every command had succeeded and been waited for.
THEOREM SuccessTheorem == Spec => []SuccessIsObserved
<1>1. IInv => SuccessIsObserved
  <2> SUFFICES ASSUME IInv, settled \in {"available", "stopped"}
               PROVE  SuccessIsObserved
    BY DEF SuccessIsObserved
  <2> DEFINE n == iteration
  <2>1. n \in Nat /\ EndsWith(n, settled)
    BY SettledEnds
  <2>2. n \in DOMAIN described /\ DOMAIN described = 0 .. n /\ waits = 0 .. (n - 1)
    BY <2>1, EndIsNewest
  <2>3. settled = TargetOf(params.mode) /\ described[n] = settled
    <3>1. DecisionAt(n).value = settled /\ DecisionAt(n).kind \in {"finish", "throw"}
      BY <2>1 DEF EndsWith
    <3> QED BY <2>2, <3>1, DecisionAtCases DEF IInv, Finish, Pause, Throw
  <2>4. \A i \in DOMAIN described : i <= n
    BY <2>1, <2>2
  <2>5. ASSUME NEW c \in calls
        PROVE  /\ c.iteration < n
               /\ c.iteration \in waits
               /\ c.iteration \in DOMAIN commanded
               /\ commanded[c.iteration] = "done"
    <3>1. c.iteration \in DOMAIN described /\ DecisionAt(c.iteration) = Pause(params.mode)
      BY CallDecided
    <3>2. c.iteration # n
      BY <2>1, <3>1 DEF EndsWith, Pause
    <3>3. c.iteration < n /\ c.iteration \in waits
      BY <2>1, <2>2, <3>1, <3>2
    <3>4. params.mode # "none"
      BY ParamsType DEF IInv, TypeOK, Modes
    <3> QED BY <3>1, <3>3, <3>4 DEF IInv, LogInv, ReadyToWait, Pause
  <2> HIDE DEF n
  <2> QED BY <2>2, <2>3, <2>4, <2>5 DEF SuccessIsObserved
<1> QED BY <1>1, Inductive, PTL

\* Markers and messages agree with the outcome.
THEOREM ReportTheorem == Spec => []ReportsAgree
<1>1. IInv => ReportsAgree
  <2> SUFFICES ASSUME IInv PROVE ReportsAgree
    OBVIOUS
  <2>1. ASSUME NEW i, NEW o, EndsWith(i, o)
        PROVE  markers \subseteq MarkersFor(o) /\ messages \subseteq {o}
    BY <2>1, EndsOnce DEF IInv, ReportInv
  <2>2. settled \notin {Absent, "step"} =>
           /\ EndsWith(iteration, settled)
           /\ MarkersFor(settled) \subseteq markers
           /\ PostsMessage(settled) => settled \in messages
    BY DEF IInv, LocalInv, ReportInv
  <2>3. \A m \in messages : PostsMessage(m) /\ \E i : EndsWith(i, m)
    BY DEF IInv, ReportInv
  <2>4. settled \notin {Absent, "step"} =>
           /\ markers = MarkersFor(settled)
           /\ messages = IF PostsMessage(settled) THEN {settled} ELSE {}
    BY <2>1, <2>2, <2>3
  <2>5. \A m \in messages : markers = MarkersFor(m)
    BY <2>1, <2>3 DEF IInv, ReportInv
  <2>6. /\ MarkersFor("available") = {}
        /\ MarkersFor("stopped") = {}
        /\ MarkersFor("skipped") = {}
        /\ "ResourceWaitTimedOut" \in MarkersFor("timeout")
    BY DEF MarkersFor
  <2> QED BY <2>4, <2>5, <2>6 DEF ReportsAgree
<1> QED BY <1>1, Inductive, PTL

\* A call is made only in the newest iteration and before its command step is
\* recorded: replay repeats no command that succeeded.
THEOREM CallsTheorem == Spec => CallsFollowLog
<1> DEFINE Follow ==
      \A c \in calls' \ calls :
           /\ DOMAIN described = 0 .. c.iteration
           /\ waits = 0 .. (c.iteration - 1)
           /\ c.iteration \notin DOMAIN commanded
<1>1. IInv /\ [Next]_vars => [Follow]_vars
  <2> SUFFICES ASSUME IInv, [Next]_vars, NEW c \in calls' \ calls
               PROVE  /\ DOMAIN described = 0 .. c.iteration
                      /\ waits = 0 .. (c.iteration - 1)
                      /\ c.iteration \notin DOMAIN commanded
    OBVIOUS
  <2>1. CallRDS
    BY DEF Next, Progress, Describe, ReplayDescribe, FinishCommand,
       ReplayCommand, AttemptCommand, ReplayWait, WaitElapses, ReplayPost,
       FinishPost, AttemptPost, Settle, Crash, StatusDrifts, Done, vars,
       worldVars
  <2>2. c.iteration = iteration
    BY <2>1 DEF CallRDS, Call
  <2>3. /\ iteration \notin DOMAIN commanded
        /\ PausesAt(iteration)
        /\ DecisionAt(iteration).value = params.mode
    BY <2>1 DEF CallRDS, IInv, LocalInv
  <2>4. params.mode # "none"
    BY ParamsType DEF IInv, TypeOK, Modes
  <2>5. ~ ReadyToWait(iteration)
    BY <2>3, <2>4 DEF ReadyToWait
  <2> QED BY <2>2, <2>3, <2>5, NewestIteration DEF PausesAt
<1> QED BY <1>1, Inductive, PTL DEF Spec, CallsFollowLog
-------------------------------------------------------------------------------
(* No replay goes round in circles. *)

LEMMA PlaceOrder ==
    /\ Place("describe") = 0 /\ Place("command") = 1 /\ Place("wait") = 2
    /\ Place("post") = 3 /\ Place("return") = 4 /\ Place("settled") = 5
BY DEF Place

\* An iteration that pauses has an interval left.
LEMMA PauseFits ==
    ASSUME IInv, NEW i, PausesAt(i)
    PROVE  (i + 1) * params.interval <= params.max
<1>1. i \in DOMAIN described /\ i \in Nat
  BY DEF IInv, PausesAt, TypeOK
<1>2. i * params.interval + params.interval <= params.max
  BY <1>1, DecisionAtCases DEF IInv, PausesAt, Finish, Throw
<1> QED BY <1>1, <1>2, ParamsType DEF IInv, TypeOK

\* An iteration begins within the maximum: the one before it had an interval left.
LEMMA IterationFits ==
    ASSUME IInv
    PROVE  iteration \in Nat /\ iteration * params.interval <= params.max
<1>1. iteration \in Nat /\ params.interval \in Nat \ {0} /\ params.max \in Nat
  BY ParamsType DEF IInv, TypeOK
<1>2. CASE iteration = 0
  BY <1>1, <1>2
<1>3. CASE iteration # 0
  <2>1. iteration - 1 \in 0 .. (iteration - 1) /\ (iteration - 1) + 1 = iteration
    BY <1>1, <1>3
  <2>2. PausesAt(iteration - 1)
    BY <2>1 DEF IInv, LocalInv, LogInv, ReadyToWait
  <2>3. ((iteration - 1) + 1) * params.interval <= params.max
    BY <2>2, PauseFits
  <2> QED BY <1>1, <2>1, <2>3
<1> QED BY <1>1, <1>2, <1>3

\* For any statuses, settings and number of crashes: each step keeps the log and adds
\* something to it within the maximum wait, or brings the replay nearer to its end.
THEOREM LoopAlwaysLeadsOn == Spec => LoopLeadsOn
<1> DEFINE Onward ==
      \/ crashes' > crashes \/ UNCHANGED <<logVars, localVars>>
      \/ LogGrows \/ CatchesUp
<1>1. IInv /\ [Next]_vars => [Onward]_vars
  <2> SUFFICES ASSUME IInv, [Next]_vars PROVE Onward
    OBVIOUS
  <2>1. TypeOK /\ crashes \in Nat
    BY DEF IInv, TypeOK
  <2>2. CASE Describe
    <3>1. PICK o : described' = Checkpoint(described, iteration, o)
      BY <2>2 DEF Describe
    <3>2. iteration \in DOMAIN described' \ DOMAIN described /\ params' = params
      BY <2>2, <3>1 DEF Describe, Checkpoint
    <3> QED BY <3>2, IterationFits DEF LogGrows
  <2>3. CASE ReplayDescribe
    <3>1. pc = "describe" /\ iteration' = iteration /\ UNCHANGED logVars
      BY <2>3 DEF ReplayDescribe
    <3>2. pc' \in {"command", "wait", "post", "return"}
      BY <2>1, <2>3, ProceedType DEF ReplayDescribe, TypeOK
    <3> QED BY <3>1, <3>2, PlaceOrder DEF CatchesUp
  <2>4. CASE FinishCommand
    <3>1. PICK o : commanded' = Checkpoint(commanded, iteration, o)
      BY <2>4 DEF FinishCommand
    <3>2. iteration \in DOMAIN commanded' \ DOMAIN commanded
      BY <2>4, <3>1 DEF FinishCommand, CallRDS, Checkpoint
    <3>3. PausesAt(iteration)
      BY <2>4 DEF FinishCommand, CallRDS, IInv, LocalInv
    <3> QED BY <3>2, <3>3, PauseFits DEF LogGrows
  <2>5. CASE ReplayCommand
    <3>1. pc = "command" /\ iteration' = iteration /\ UNCHANGED logVars
      BY <2>5 DEF ReplayCommand
    <3>2. pc' \in {"wait", "post", "return"}
      BY <2>1, <2>5, AfterCommandType DEF ReplayCommand
    <3> QED BY <3>1, <3>2, PlaceOrder DEF CatchesUp
  <2>6. CASE WaitElapses
    <3>1. iteration \in waits' \ waits
      BY <2>6 DEF WaitElapses
    <3>2. PausesAt(iteration)
      BY <2>6 DEF WaitElapses, IInv, LocalInv, ReadyToWait
    <3> QED BY <3>1, <3>2, PauseFits DEF LogGrows
  <2>7. CASE ReplayWait
    BY <2>7 DEF ReplayWait, NextIteration, CatchesUp
  <2>8. CASE FinishPost
    <3>1. PICK o : posted' = Checkpoint(posted, SlackStepFor(result), o)
      BY <2>8 DEF FinishPost
    <3>2. SlackStepFor(result) \in DOMAIN posted' \ DOMAIN posted
      BY <2>8, <3>1 DEF FinishPost, Checkpoint
    <3> QED BY <3>2 DEF LogGrows
  <2>9. CASE ReplayPost
    <3>1. /\ pc = "post" /\ pc' = "return" /\ iteration' = iteration
          /\ UNCHANGED logVars
      BY <2>9 DEF ReplayPost, AfterPost
    <3> QED BY <3>1, PlaceOrder DEF CatchesUp
  <2>10. CASE Settle
    BY <2>10 DEF Settle, LogGrows, IInv, LocalInv
  <2>11. CASE Crash
    BY <2>1, <2>11 DEF Crash
  <2>12. CASE AttemptCommand \/ AttemptPost \/ StatusDrifts \/ Done \/ UNCHANGED vars
    BY <2>12 DEF AttemptCommand, AttemptPost, StatusDrifts, Done, vars
  <2> QED BY <2>2, <2>3, <2>4, <2>5, <2>6, <2>7, <2>8, <2>9, <2>10, <2>11, <2>12
          DEF Next, Progress
<1>2. IInv /\ [Next]_vars => [LogIsKept /\ Onward]_vars
  BY <1>1, StepKeepsLog
<1> QED BY <1>2, Inductive, PTL DEF Spec, LoopLeadsOn
==============================================================================
