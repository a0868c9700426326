------------------------ MODULE OverlappingRuns_proofs ------------------------
(***************************************************************************)
(* For any number of runs of one resource: the commands of each are        *)
(* limited, and each is a ResourceControl, the others being part of what   *)
(* happens to the resource.                                                *)
(***************************************************************************)
EXTENDS OverlappingRuns, RunningScheduleWait_proofs, TLAPS

\* What the commands of a run may have cost so far, in seconds times attempts:
\* a command is paid for by the interval that follows it.
Paid(r) ==
    CASE at[r] \in {"look", "decide"} -> Attempts * spent[r]
      [] at[r] = "command"            -> Attempts * spent[r] + tries[r] * Interval
      [] at[r] = "rest"               -> Attempts * (spent[r] + Interval)
      [] OTHER                        -> Attempts * Max

\* Where a run is tells what its latest look was and what it may still spend.
RunInv(r) ==
    /\ at[r] # "over" => verdict[r] = "none"
    /\ at[r] \in {"command", "rest"} => spent[r] + Interval <= Max
    /\ at[r] = "decide" => seen[r] # "none"
    /\ at[r] = "command" => seen[r] = SourceOf(mode[r])
    /\ at[r] = "rest" => seen[r] \in {SourceOf(mode[r])} \cup TRANSITIONING_STATES
    /\ at[r] \in {"look", "decide", "rest"} => tries[r] = 0
    /\ commands[r] * Interval <= Paid(r)

SharedInv == SharedTypeOK /\ \A r \in Runs : RunInv(r)

\* The state of one run.
runState(r) == <<mode[r], at[r], seen[r], spent[r], tries[r], commands[r], verdict[r]>>

LEMMA WaitNumbers == Interval \in Nat \ {0} /\ Max \in Nat \ {0}
BY SharedWaitAssumption DEF resolveResourceWait

LEMMA ModeFacts ==
    ASSUME NEW m \in Modes
    PROVE  /\ SourceOf(m) \in {"available", "stopped"}
           /\ TargetOf(m) \in {"available", "stopped"}
           /\ SourceOf(m) # TargetOf(m)
           /\ SourceOf(m) \notin TRANSITIONING_STATES
           /\ TargetOf(m) \notin TRANSITIONING_STATES
BY DEF Modes, SourceOf, TargetOf, TRANSITIONING_STATES

LEMMA SharedInitInv == SharedInit => SharedInv
<1> SUFFICES ASSUME SharedInit PROVE SharedInv
  OBVIOUS
<1>1. SharedTypeOK
  BY WaitNumbers, AttemptsAssumption DEF SharedInit, SharedTypeOK
<1>2. ASSUME NEW r \in Runs PROVE RunInv(r)
  <2>1. /\ at[r] = "look" /\ spent[r] = 0 /\ tries[r] = 0
        /\ commands[r] = 0 /\ verdict[r] = "none"
    BY DEF SharedInit
  <2>2. 0 * Interval <= Attempts * 0
    BY WaitNumbers, AttemptsAssumption
  <2> QED BY <2>1, <2>2 DEF RunInv, Paid
<1> QED BY <1>1, <1>2 DEF SharedInv

\* The invariant of a run only depends on the state of that run.
LEMMA RunInvStable ==
    ASSUME NEW r \in Runs, RunInv(r), UNCHANGED runState(r)
    PROVE  RunInv(r)'
BY DEF RunInv, Paid, runState

LEMMA LookAtInv ==
    ASSUME SharedInv, NEW r \in Runs, LookAt(r)
    PROVE  SharedTypeOK' /\ RunInv(r)'
<1>1. PICK observation \in {status, "step-failed"} : seen' = [seen EXCEPT ![r] = observation]
  BY DEF LookAt
<1>2. /\ at[r] = "look" /\ at' = [at EXCEPT ![r] = "decide"] /\ latest' = r
      /\ UNCHANGED <<mode, status, spent, tries, commands, verdict>>
  BY DEF LookAt
<1>3. SharedTypeOK'
  BY <1>1, <1>2 DEF SharedInv, SharedTypeOK
<1>4. at'[r] = "decide" /\ seen'[r] # "none"
  BY <1>1, <1>2, SharedStatusesAssumption DEF SharedInv, SharedTypeOK
<1> QED BY <1>2, <1>3, <1>4 DEF SharedInv, RunInv, Paid

\* The four ways a decision goes.
LEMMA DecideCases ==
    ASSUME SharedInv, NEW r \in Runs, Decide(r)
    PROVE  \/ /\ at'[r] = "over"
              /\ \/ verdict'[r] = "step" /\ seen[r] = "step-failed"
                 \/ verdict'[r] = TargetOf(mode[r]) /\ seen[r] = TargetOf(mode[r])
                 \/ /\ verdict'[r] = "timeout"
                    /\ seen[r] \in {SourceOf(mode[r])} \cup TRANSITIONING_STATES
                    /\ ~ (spent[r] + Interval <= Max)
                 \/ /\ verdict'[r] = "unexpected"
                    /\ seen[r] \notin {"step-failed", SourceOf(mode[r]), TargetOf(mode[r])}
                                      \cup TRANSITIONING_STATES
           \/ /\ at'[r] = "command" /\ seen[r] = SourceOf(mode[r])
              /\ spent[r] + Interval <= Max /\ verdict' = verdict
           \/ /\ at'[r] = "rest" /\ seen[r] \in TRANSITIONING_STATES
              /\ spent[r] + Interval <= Max /\ verdict' = verdict
<1> DEFINE step == nextWaitStep(mode[r], seen[r], spent[r], Interval, Max)
<1>1. /\ mode[r] \in Modes /\ spent[r] \in Nat /\ at[r] = "decide"
      /\ seen[r] \in Statuses \cup {"step-failed"}
      /\ at \in [Runs -> {"look", "decide", "command", "rest", "over"}]
      /\ verdict \in [Runs -> Verdicts \cup {"none"}]
  BY DEF SharedInv, SharedTypeOK, RunInv, Decide
<1>2. \/ seen[r] = "step-failed" /\ EndWith(r, "step")
      \/ seen[r] # "step-failed" /\ step.kind # "pause" /\ EndWith(r, step.value)
      \/ /\ seen[r] # "step-failed"
         /\ step.kind = "pause"
         /\ at' = [at EXCEPT ![r] = IF step.value = "none" THEN "rest" ELSE "command"]
         /\ verdict' = verdict
  BY DEF Decide
<1>3. CASE seen[r] = "step-failed"
  BY <1>1, <1>2, <1>3 DEF EndWith
<1>4. CASE seen[r] # "step-failed"
  <2>1. seen[r] # "not-found" /\ mode[r] # "none"
    BY <1>1, <1>4, SharedStatusesAssumption DEF Modes
  <2>2. \/ seen[r] = TargetOf(mode[r]) /\ step = Finish(seen[r])
        \/ seen[r] = SourceOf(mode[r]) /\ spent[r] + Interval <= Max /\ step = Pause(mode[r])
        \/ seen[r] \in TRANSITIONING_STATES /\ spent[r] + Interval <= Max /\ step = Pause("none")
        \/ /\ seen[r] \in {SourceOf(mode[r])} \cup TRANSITIONING_STATES
           /\ spent[r] + Interval > Max /\ step = Throw("timeout")
        \/ /\ seen[r] \notin {SourceOf(mode[r]), TargetOf(mode[r])} \cup TRANSITIONING_STATES
           /\ step = Throw("unexpected")
    <3>1. spent[r] \in Int /\ Interval \in Int /\ Max \in Int
      BY <1>1, WaitNumbers
    <3>2. \/ seen[r] = "not-found" /\ step = Finish("skipped")
          \/ seen[r] = TargetOf(mode[r]) /\ step = Finish(seen[r])
          \/ seen[r] = SourceOf(mode[r]) /\ spent[r] + Interval <= Max /\ step = Pause(mode[r])
          \/ seen[r] \in TRANSITIONING_STATES /\ spent[r] + Interval <= Max /\ step = Pause("none")
          \/ /\ seen[r] \in {SourceOf(mode[r])} \cup TRANSITIONING_STATES
             /\ spent[r] + Interval > Max /\ step = Throw("timeout")
          \/ /\ seen[r] \notin ({SourceOf(mode[r])} \cup TRANSITIONING_STATES) \cup {TargetOf(mode[r]), "not-found"}
             /\ step = Throw("unexpected")
      BY <1>1, <3>1, DecisionCases
    <3> QED BY <2>1, <3>2
  <2> QED BY <1>1, <1>2, <1>4, <2>1, <2>2, WaitNumbers DEF EndWith, Finish, Pause, Throw
<1> QED BY <1>3, <1>4

LEMMA DecideInv ==
    ASSUME SharedInv, NEW r \in Runs, Decide(r)
    PROVE  SharedTypeOK' /\ RunInv(r)'
<1>1. /\ at[r] = "decide"
      /\ UNCHANGED <<mode, status, seen, spent, tries, commands, latest>>
      /\ mode[r] \in Modes /\ spent[r] \in 0 .. Max /\ tries[r] = 0 /\ commands[r] \in Nat
  BY DEF Decide, SharedInv, SharedTypeOK, RunInv
<1>2. commands[r] * Interval <= Attempts * spent[r]
  BY <1>1 DEF SharedInv, RunInv, Paid
<1>3. /\ at'[r] = "command" => seen[r] = SourceOf(mode[r])
      /\ at'[r] = "rest" => seen[r] \in TRANSITIONING_STATES
      /\ at'[r] \in {"command", "rest"} => spent[r] + Interval <= Max /\ verdict'[r] = verdict[r]
      /\ at'[r] \in {"command", "rest", "over"}
  BY DecideCases
<1>4. SharedTypeOK'
  <2>1. \E where \in {"rest", "command", "over"} : at' = [at EXCEPT ![r] = where]
    BY DEF Decide, EndWith
  <2>2. verdict' = [verdict EXCEPT ![r] = verdict'[r]] /\ verdict'[r] \in Verdicts \cup {"none"}
    <3>1. verdict'[r] \in Verdicts \cup {"none"}
      BY <1>1, DecideCases, ModeFacts DEF Verdicts, SharedInv, SharedTypeOK
    <3>2. verdict' = verdict \/ \E how : verdict' = [verdict EXCEPT ![r] = how]
      BY DEF Decide, EndWith
    <3> QED BY <3>1, <3>2 DEF SharedInv, SharedTypeOK
  <2> QED BY <1>1, <2>1, <2>2 DEF SharedInv, SharedTypeOK
<1>5. commands[r] * Interval <= Paid(r)'
  <2>1. Attempts * spent[r] + 0 * Interval = Attempts * spent[r]
    BY <1>1, WaitNumbers, AttemptsAssumption, Products
  <2>2. Attempts * spent[r] <= Attempts * (spent[r] + Interval)
    BY <1>1, WaitNumbers, AttemptsAssumption, Products
  <2>3. Attempts * spent[r] <= Attempts * Max
    BY <1>1, WaitNumbers, AttemptsAssumption, Products
  <2>4. /\ commands[r] * Interval \in Nat /\ Attempts * spent[r] \in Nat
        /\ Attempts * (spent[r] + Interval) \in Nat /\ Attempts * Max \in Nat
    BY <1>1, WaitNumbers, AttemptsAssumption, Products
  <2>5. CASE at'[r] = "command"
    BY <1>1, <1>2, <2>1, <2>5 DEF Paid
  <2>6. CASE at'[r] = "rest"
    BY <1>1, <1>2, <2>2, <2>4, <2>6 DEF Paid
  <2>7. CASE at'[r] = "over"
    BY <1>1, <1>2, <2>3, <2>4, <2>7 DEF Paid
  <2> QED BY <1>3, <2>5, <2>6, <2>7
<1> QED BY <1>1, <1>3, <1>4, <1>5 DEF SharedInv, RunInv

\* An attempt may be accepted or not; both change the state of one run.
LEMMA AttemptInv ==
    ASSUME SharedInv, NEW r \in Runs, CommandSucceeds(r) \/ CommandFails(r)
    PROVE  SharedTypeOK' /\ RunInv(r)'
<1>1. /\ at[r] = "command" /\ tries[r] < Attempts
      /\ UNCHANGED <<mode, seen, spent, verdict, latest>>
      /\ mode[r] \in Modes /\ spent[r] \in Nat /\ tries[r] \in Nat /\ commands[r] \in Nat
      /\ spent[r] + Interval <= Max /\ seen[r] = SourceOf(mode[r])
  BY DEF CommandSucceeds, CommandFails, SharedInv, SharedTypeOK, RunInv
<1>2. /\ commands[r] * Interval <= Attempts * spent[r] + tries[r] * Interval
      /\ verdict[r] = "none"
  BY <1>1 DEF SharedInv, RunInv, Paid
<1>3. status' \in Statuses
  BY SharedStatusesAssumption DEF CommandSucceeds, CommandFails, Accept, SharedInv, SharedTypeOK
<1>4. /\ commands' \in [Runs -> Nat]
      /\ commands'[r] \in {commands[r], commands[r] + 1}
  BY <1>1 DEF CommandSucceeds, CommandFails, Accept, SharedInv, SharedTypeOK
<1>5. /\ (commands[r] + 1) * Interval = commands[r] * Interval + Interval
      /\ (tries[r] + 1) * Interval = tries[r] * Interval + Interval
      /\ (tries[r] + 1) * Interval <= Attempts * Interval
      /\ Attempts * (spent[r] + Interval) = Attempts * spent[r] + Attempts * Interval
      /\ commands[r] * Interval \in Nat /\ tries[r] * Interval \in Nat
      /\ Attempts * spent[r] \in Nat /\ Attempts * Interval \in Nat
  BY <1>1, WaitNumbers, AttemptsAssumption, Products
<1>6. commands'[r] * Interval <= Attempts * spent[r] + (tries[r] + 1) * Interval
  BY <1>2, <1>4, <1>5, WaitNumbers
<1>7. CASE CommandSucceeds(r)
  <2>1. /\ at' = [at EXCEPT ![r] = "rest"] /\ tries' = [tries EXCEPT ![r] = 0]
    BY <1>7 DEF CommandSucceeds
  <2>2. at'[r] = "rest" /\ tries'[r] = 0
    BY <2>1 DEF SharedInv, SharedTypeOK
  <2>3. SharedTypeOK'
    BY <1>1, <1>3, <1>4, <2>1, AttemptsAssumption DEF SharedInv, SharedTypeOK
  <2>4. commands'[r] * Interval <= Attempts * (spent[r] + Interval)
    <3>1. commands'[r] * Interval \in Nat
      BY <1>1, <1>4, WaitNumbers, Products
    <3>2. (tries[r] + 1) * Interval \in Nat
      BY <1>1, WaitNumbers, Products
    <3> QED BY <1>5, <1>6, <3>1, <3>2
  <2>5. (commands[r] * Interval <= Paid(r))'
    BY <1>1, <2>2, <2>4 DEF Paid
  <2> QED BY <1>1, <1>2, <2>2, <2>3, <2>5 DEF RunInv
<1>8. CASE CommandFails(r)
  <2>1. tries' = [tries EXCEPT ![r] = @ + 1] /\ at' = at
    BY <1>8 DEF CommandFails
  <2>2. at'[r] = "command" /\ tries'[r] = tries[r] + 1
    BY <1>1, <2>1 DEF SharedInv, SharedTypeOK
  <2>3. SharedTypeOK'
    BY <1>1, <1>3, <1>4, <2>1, AttemptsAssumption DEF SharedInv, SharedTypeOK
  <2>4. (commands[r] * Interval <= Paid(r))'
    BY <1>1, <1>6, <2>2 DEF Paid
  <2> QED BY <1>1, <1>2, <2>2, <2>3, <2>4 DEF RunInv
<1> QED BY <1>7, <1>8

LEMMA GiveUpInv ==
    ASSUME SharedInv, NEW r \in Runs, GiveUp(r)
    PROVE  SharedTypeOK' /\ RunInv(r)'
<1>1. /\ at[r] = "command" /\ tries[r] = Attempts
      /\ at' = [at EXCEPT ![r] = "over"] /\ verdict' = [verdict EXCEPT ![r] = "step"]
      /\ UNCHANGED <<mode, status, seen, spent, tries, commands, latest>>
      /\ spent[r] \in Nat /\ commands[r] \in Nat /\ spent[r] + Interval <= Max
  BY DEF GiveUp, EndWith, SharedInv, SharedTypeOK, RunInv
<1>2. SharedTypeOK'
  BY <1>1 DEF SharedInv, SharedTypeOK, Verdicts
<1>3. at'[r] = "over"
  BY <1>1 DEF SharedInv, SharedTypeOK
<1>4. commands[r] * Interval <= Attempts * Max
  <2>1. commands[r] * Interval <= Attempts * spent[r] + Attempts * Interval
    BY <1>1 DEF SharedInv, RunInv, Paid
  <2>2. /\ Attempts * (spent[r] + Interval) = Attempts * spent[r] + Attempts * Interval
        /\ Attempts * (spent[r] + Interval) <= Attempts * Max
        /\ commands[r] * Interval \in Nat /\ Attempts * Max \in Nat
        /\ Attempts * (spent[r] + Interval) \in Nat
    BY <1>1, WaitNumbers, AttemptsAssumption, Products
  <2> QED BY <2>1, <2>2
<1>5. (commands[r] * Interval <= Paid(r))'
  BY <1>1, <1>3, <1>4 DEF Paid
<1> QED BY <1>2, <1>3, <1>5 DEF RunInv

LEMMA RestInv ==
    ASSUME SharedInv, NEW r \in Runs, Rest(r)
    PROVE  SharedTypeOK' /\ RunInv(r)'
<1>1. /\ at[r] = "rest"
      /\ at' = [at EXCEPT ![r] = "look"] /\ spent' = [spent EXCEPT ![r] = @ + Interval]
      /\ UNCHANGED <<mode, status, seen, tries, commands, verdict, latest>>
      /\ spent[r] \in Nat /\ spent[r] + Interval <= Max
      /\ commands[r] * Interval <= Attempts * (spent[r] + Interval)
      /\ verdict[r] = "none" /\ tries[r] = 0
  BY DEF Rest, SharedInv, SharedTypeOK, RunInv, Paid
<1>2. SharedTypeOK'
  BY <1>1, WaitNumbers DEF SharedInv, SharedTypeOK
<1>3. at'[r] = "look" /\ spent'[r] = spent[r] + Interval
  BY <1>1 DEF SharedInv, SharedTypeOK
<1>4. (commands[r] * Interval <= Paid(r))'
  BY <1>1, <1>3 DEF Paid
<1> QED BY <1>1, <1>2, <1>3, <1>4 DEF RunInv

\* A step of a run leaves the state of every other run alone.
LEMMA OthersUnchanged ==
    ASSUME SharedInv, NEW r \in Runs, RunStep(r), NEW q \in Runs, q # r
    PROVE  UNCHANGED runState(q)
<1>1. CASE LookAt(r)
  BY <1>1 DEF LookAt, runState, SharedInv, SharedTypeOK
<1>2. CASE Decide(r)
  BY <1>2 DEF Decide, EndWith, runState, SharedInv, SharedTypeOK
<1>3. CASE CommandSucceeds(r) \/ CommandFails(r) \/ GiveUp(r)
  BY <1>3 DEF CommandSucceeds, CommandFails, GiveUp, Accept, EndWith, runState, SharedInv, SharedTypeOK
<1>4. CASE Rest(r)
  BY <1>4 DEF Rest, runState, SharedInv, SharedTypeOK
<1> QED BY <1>1, <1>2, <1>3, <1>4 DEF RunStep

LEMMA SharedStepInv == SharedInv /\ [SharedNext]_sharedVars => SharedInv'
<1> SUFFICES ASSUME SharedInv, [SharedNext]_sharedVars PROVE SharedInv'
  OBVIOUS
<1>1. ASSUME NEW r \in Runs, RunStep(r) PROVE SharedInv'
  <2>1. SharedTypeOK' /\ RunInv(r)'
    BY <1>1, LookAtInv, DecideInv, AttemptInv, GiveUpInv, RestInv DEF RunStep
  <2>2. ASSUME NEW q \in Runs, q # r PROVE RunInv(q)'
    BY <1>1, <2>2, OthersUnchanged, RunInvStable DEF SharedInv
  <2> QED BY <2>1, <2>2 DEF SharedInv
<1>2. CASE StatusMoves
  <2>1. SharedTypeOK'
    BY <1>2, SharedStatusesAssumption DEF StatusMoves, SharedInv, SharedTypeOK
  <2>2. ASSUME NEW r \in Runs PROVE RunInv(r)'
    BY <1>2, RunInvStable DEF StatusMoves, runState, SharedInv
  <2> QED BY <2>1, <2>2 DEF SharedInv
<1>3. CASE UNCHANGED sharedVars
  <2>1. SharedTypeOK'
    BY <1>3 DEF sharedVars, SharedInv, SharedTypeOK
  <2>2. ASSUME NEW r \in Runs PROVE RunInv(r)'
    BY <1>3, RunInvStable DEF sharedVars, runState, SharedInv
  <2> QED BY <2>1, <2>2 DEF SharedInv
<1> QED BY <1>1, <1>2, <1>3 DEF SharedNext

\* Type correctness for any number of runs; none rests beyond its maximum.
THEOREM SharedTypeCorrect == SharedSpec => []SharedTypeOK
<1>1. SharedInv => SharedTypeOK
  BY DEF SharedInv
<1> QED BY <1>1, SharedInitInv, SharedStepInv, PTL DEF SharedSpec

\* For any number of runs, in any modes: however long they undo one another, RDS
\* takes a limited number of commands from each.
THEOREM CommandsAreBounded == SharedSpec => []CommandsBounded
<1>1. ASSUME SharedInv, NEW r \in Runs PROVE commands[r] * Interval <= Attempts * Max
  <2>1. /\ spent[r] \in 0 .. Max /\ tries[r] \in 0 .. Attempts /\ commands[r] \in Nat
        /\ at[r] \in {"look", "decide", "command", "rest", "over"}
        /\ commands[r] * Interval <= Paid(r)
        /\ at[r] \in {"command", "rest"} => spent[r] + Interval <= Max
    BY <1>1 DEF SharedInv, SharedTypeOK, RunInv
  <2>2. /\ Attempts * spent[r] <= Attempts * Max
        /\ Attempts * (spent[r] + Interval) = Attempts * spent[r] + Attempts * Interval
        /\ tries[r] * Interval <= Attempts * Interval
        /\ commands[r] * Interval \in Nat /\ tries[r] * Interval \in Nat
        /\ Attempts * spent[r] \in Nat /\ Attempts * Interval \in Nat /\ Attempts * Max \in Nat
    BY <2>1, WaitNumbers, AttemptsAssumption, Products
  <2>3. spent[r] + Interval <= Max => Attempts * (spent[r] + Interval) <= Attempts * Max
    BY <2>1, WaitNumbers, AttemptsAssumption, Products
  <2>4. CASE at[r] \in {"look", "decide"}
    BY <2>1, <2>2, <2>4 DEF Paid
  <2>5. CASE at[r] = "command"
    BY <2>1, <2>2, <2>3, <2>5 DEF Paid
  <2>6. CASE at[r] = "rest"
    BY <2>1, <2>2, <2>3, <2>6 DEF Paid
  <2>7. CASE at[r] = "over"
    BY <2>1, <2>2, <2>7 DEF Paid
  <2> QED BY <2>1, <2>4, <2>5, <2>6, <2>7
<1>2. SharedInv => CommandsBounded
  BY <1>1 DEF CommandsBounded
<1> QED BY <1>2, SharedInitInv, SharedStepInv, PTL DEF SharedSpec

-------------------------------------------------------------------------------
(* The last look decides. *)

\* The statuses RDS may go through, by itself, from the target of a mode.
Side == CHOOSE side \in [Modes -> SUBSET Statuses] :
            \A m \in Modes :
                /\ TargetOf(m) \in side[m]
                /\ SourceOf(m) \notin side[m]
                /\ \A change \in Drift : change[1] \in side[m] => change[2] \in side[m]

\* A run that has still to look at what its command did, or never will.
Unsettled(p) ==
    \/ at[p] \in {"rest", "look"}
    \/ at[p] = "command" /\ tries[p] > 0
    \/ verdict[p] = "step"

\* When the latest look found its target, only a run that did not look since it
\* sent a command can have moved the resource from there.
LookInv ==
    /\ \A r \in Runs : verdict[r] = TargetOf(mode[r]) => seen[r] = TargetOf(mode[r])
    /\ seen[latest] = TargetOf(mode[latest]) =>
          status \in Side[mode[latest]] \/ \E p \in Runs : Unsettled(p)

LEMMA SideFacts ==
    \A m \in Modes :
        /\ TargetOf(m) \in Side[m]
        /\ SourceOf(m) \notin Side[m]
        /\ \A change \in Drift : change[1] \in Side[m] => change[2] \in Side[m]
BY SidesAssumption DEF Side

LEMMA LookInitInv == SharedInit => LookInv
<1> SUFFICES ASSUME SharedInit PROVE LookInv
  OBVIOUS
<1>1. \A r \in Runs : verdict[r] = "none" /\ at[r] = "look" /\ mode[r] \in Modes
  BY DEF SharedInit
<1>2. \A r \in Runs : verdict[r] # TargetOf(mode[r])
  BY <1>1, ModeFacts
<1>3. latest \in Runs /\ Unsettled(latest)
  BY <1>1 DEF SharedInit, Unsettled
<1> QED BY <1>2, <1>3 DEF LookInv

LEMMA UnsettledStable ==
    ASSUME NEW p \in Runs, Unsettled(p), UNCHANGED runState(p)
    PROVE  Unsettled(p)'
BY DEF Unsettled, runState

\* A run that takes a step other than a look stays unsettled if it was.
LEMMA StaysUnsettled ==
    ASSUME SharedInv, NEW r \in Runs, RunStep(r), ~ LookAt(r), Unsettled(r)
    PROVE  Unsettled(r)'
<1>1. at[r] # "over" /\ verdict[r] = "none"
  BY DEF RunStep, LookAt, Decide, Rest, CommandSucceeds, CommandFails, GiveUp, SharedInv, RunInv
<1>2. CASE Decide(r)
  BY <1>1, <1>2 DEF Decide, Unsettled
<1>3. CASE Rest(r)
  BY <1>3 DEF Rest, Unsettled, SharedInv, SharedTypeOK
<1>4. CASE CommandSucceeds(r)
  BY <1>4 DEF CommandSucceeds, Unsettled, SharedInv, SharedTypeOK
<1>5. CASE CommandFails(r)
  BY <1>5 DEF CommandFails, Unsettled, SharedInv, SharedTypeOK
<1>6. CASE GiveUp(r)
  BY <1>6 DEF GiveUp, EndWith, Unsettled, SharedInv, SharedTypeOK
<1> QED BY <1>2, <1>3, <1>4, <1>5, <1>6 DEF RunStep

\* Only a run that is then unsettled changes the status.
LEMMA MovesUnsettled ==
    ASSUME SharedInv, NEW r \in Runs, RunStep(r), status' # status
    PROVE  Unsettled(r)'
<1>1. CommandSucceeds(r) \/ CommandFails(r)
  BY DEF RunStep, LookAt, Decide, Rest, GiveUp
<1>2. CASE CommandSucceeds(r)
  BY <1>2 DEF CommandSucceeds, Unsettled, SharedInv, SharedTypeOK
<1>3. CASE CommandFails(r)
  BY <1>3 DEF CommandFails, Unsettled, SharedInv, SharedTypeOK
<1> QED BY <1>1, <1>2, <1>3

LEMMA OwnVerdict ==
    ASSUME SharedInv, LookInv, NEW r \in Runs, RunStep(r)
    PROVE  verdict'[r] = TargetOf(mode'[r]) => seen'[r] = TargetOf(mode'[r])
<1>1. at[r] # "over" /\ verdict[r] = "none" /\ mode[r] \in Modes /\ mode' = mode
  BY DEF RunStep, LookAt, Decide, Rest, CommandSucceeds, CommandFails, GiveUp, SharedInv, RunInv, SharedTypeOK
<1>2. TargetOf(mode[r]) \notin {"none", "step", "timeout", "unexpected"}
  BY <1>1, ModeFacts
<1>3. CASE Decide(r)
  BY <1>1, <1>2, <1>3, DecideCases DEF Decide
<1>4. CASE GiveUp(r)
  BY <1>1, <1>2, <1>4 DEF GiveUp, EndWith, SharedInv, SharedTypeOK
<1>5. CASE LookAt(r) \/ Rest(r) \/ CommandSucceeds(r) \/ CommandFails(r)
  BY <1>1, <1>2, <1>5 DEF LookAt, Rest, CommandSucceeds, CommandFails
<1> QED BY <1>3, <1>4, <1>5 DEF RunStep

LEMMA LookStepInv == SharedInv /\ SharedInv' /\ LookInv /\ [SharedNext]_sharedVars => LookInv'
<1> SUFFICES ASSUME SharedInv, SharedInv', LookInv, [SharedNext]_sharedVars PROVE LookInv'
  OBVIOUS
<1>1. ASSUME NEW r \in Runs, RunStep(r) PROVE LookInv'
  <2>1. ASSUME NEW q \in Runs
        PROVE  verdict'[q] = TargetOf(mode'[q]) => seen'[q] = TargetOf(mode'[q])
    <3>1. CASE q = r
      BY <1>1, <3>1, OwnVerdict
    <3>2. CASE q # r
      BY <1>1, <3>2, OthersUnchanged DEF runState, LookInv
    <3> QED BY <3>1, <3>2
  <2>2. ASSUME seen'[latest'] = TargetOf(mode'[latest'])
        PROVE  status' \in Side[mode'[latest']] \/ \E p \in Runs : Unsettled(p)'
    <3>1. CASE LookAt(r)
      <4>1. latest' = r /\ status' = status /\ mode' = mode /\ mode[r] \in Modes
        BY <3>1 DEF LookAt, SharedInv, SharedTypeOK
      <4>2. seen'[r] \in {status, "step-failed"}
        BY <3>1 DEF LookAt, SharedInv, SharedTypeOK
      <4>3. status = TargetOf(mode[r])
        BY <2>2, <4>1, <4>2, ModeFacts
      <4> QED BY <4>1, <4>3, SideFacts
    <3>2. CASE ~ LookAt(r)
      <4>1. latest' = latest /\ seen' = seen /\ mode' = mode /\ latest \in Runs
        BY <1>1, <3>2 DEF RunStep, Decide, Rest, CommandSucceeds, CommandFails, GiveUp, SharedInv, SharedTypeOK
      <4>2. CASE \E p \in Runs : Unsettled(p)
        BY <1>1, <3>2, <4>2, StaysUnsettled, OthersUnchanged, UnsettledStable
      <4>3. CASE status \in Side[mode[latest]]
        BY <1>1, <4>1, <4>3, MovesUnsettled
      <4> QED BY <2>2, <4>1, <4>2, <4>3 DEF LookInv
    <3> QED BY <3>1, <3>2
  <2> QED BY <2>1, <2>2 DEF LookInv
<1>2. CASE StatusMoves \/ UNCHANGED sharedVars
  <2>1. /\ UNCHANGED <<mode, at, seen, tries, verdict, latest>>
        /\ mode[latest] \in Modes
    BY <1>2 DEF StatusMoves, sharedVars, SharedInv, SharedTypeOK
  <2>2. status \in Side[mode[latest]] => status' \in Side[mode[latest]]
    BY <1>2, <2>1, SideFacts DEF StatusMoves, sharedVars
  <2>3. \A p \in Runs : Unsettled(p) => Unsettled(p)'
    BY <2>1 DEF Unsettled
  <2> QED BY <2>1, <2>2, <2>3 DEF LookInv
<1> QED BY <1>1, <1>2 DEF SharedNext

\* For any number of runs in any modes: when all of them reported success, the
\* resource is on the side of the run that looked last.
THEOREM LastLookDecides == SharedSpec => []LastLookHolds
<1>1. SharedInv /\ LookInv => LastLookHolds
  <2> SUFFICES ASSUME SharedInv, LookInv, \A r \in Runs : verdict[r] = TargetOf(mode[r])
               PROVE  status # SourceOf(mode[latest])
    BY DEF LastLookHolds
  <2>1. latest \in Runs /\ mode[latest] \in Modes /\ \A p \in Runs : mode[p] \in Modes
    BY DEF SharedInv, SharedTypeOK
  <2>2. \A p \in Runs : verdict[p] \notin {"none", "step"}
    BY <2>1, ModeFacts
  <2>3. \A p \in Runs : ~ Unsettled(p)
    BY <2>2 DEF SharedInv, RunInv, Unsettled
  <2>4. seen[latest] = TargetOf(mode[latest])
    BY <2>1 DEF LookInv
  <2>5. status \in Side[mode[latest]]
    BY <2>3, <2>4 DEF LookInv
  <2> QED BY <2>1, <2>5, SideFacts
<1>2. SharedSpec => []SharedInv
  BY SharedInitInv, SharedStepInv, PTL DEF SharedSpec
<1> QED BY <1>1, <1>2, LookInitInv, LookStepInv, PTL DEF SharedSpec

-------------------------------------------------------------------------------
(* Each run implements ResourceControl. *)

LEMMA SameWords ==
    /\ Control!Modes = Modes
    /\ Control!TRANSITIONING_STATES = TRANSITIONING_STATES
    /\ \A m : Control!SourceOf(m) = SourceOf(m) /\ Control!TargetOf(m) = TargetOf(m)
BY DEF Modes, Control!Modes, TRANSITIONING_STATES, Control!TRANSITIONING_STATES,
   SourceOf, Control!SourceOf, TargetOf, Control!TargetOf

\* What a ResourceControl sees of a run, and of the resource.
mappedRun(r) == <<mode[r], status, seen[r], at[r] = "look", spent[r], verdict[r]>>

LEMMA WatchedInit == SharedInit => Control!ControlInit
<1> SUFFICES ASSUME SharedInit PROVE Control!ControlInit
  OBVIOUS
<1>1. mode[Watched] \in Modes
  BY WatchedAssumption DEF SharedInit
<1>2. (at[Watched] = "look") = TRUE
  BY WatchedAssumption DEF SharedInit
<1>3. /\ seen[Watched] = "none" /\ spent[Watched] = 0 /\ verdict[Watched] = "none"
      /\ status \in Statuses
  BY WatchedAssumption DEF SharedInit
<1> QED BY <1>1, <1>2, <1>3, WaitNumbers, SameWords DEF Control!ControlInit

\* The steps of the run that is watched.
LEMMA LookAtMaps == SharedInv /\ LookAt(Watched) => Control!Look
<1> SUFFICES ASSUME SharedInv, LookAt(Watched) PROVE Control!Look
  OBVIOUS
<1>1. /\ at[Watched] = "look" /\ verdict[Watched] = "none"
      /\ UNCHANGED <<mode, status, spent, verdict>>
  BY WatchedAssumption DEF LookAt, SharedInv, RunInv
<1>2. at'[Watched] = "decide" /\ seen'[Watched] \in {status, "step-failed"}
  BY WatchedAssumption DEF LookAt, SharedInv, SharedTypeOK
<1>3. (at'[Watched] = "look") = FALSE
  BY <1>2
<1>4. status # "gone"
  BY SharedStatusesAssumption DEF SharedInv, SharedTypeOK
<1> QED BY <1>1, <1>2, <1>3, <1>4 DEF Control!Look, Control!Watching

LEMMA DecideMaps ==
    ASSUME SharedInv, Decide(Watched)
    PROVE  Control!Conclude \/ UNCHANGED mappedRun(Watched)
<1>1. /\ at[Watched] = "decide" /\ verdict[Watched] = "none" /\ mode[Watched] \in Modes
      /\ UNCHANGED <<mode, status, seen, spent>>
  BY WatchedAssumption DEF Decide, SharedInv, SharedTypeOK, RunInv
<1>2. seen[Watched] # "not-found"
  BY WatchedAssumption, SharedStatusesAssumption DEF SharedInv, SharedTypeOK
<1>3. CASE at'[Watched] # "over"
  <2>1. at'[Watched] \in {"command", "rest"} /\ verdict' = verdict
    BY <1>3, WatchedAssumption, DecideCases
  <2>2. (at'[Watched] = "look") = (at[Watched] = "look")
    BY <1>1, <2>1
  <2> QED BY <1>1, <2>1, <2>2 DEF mappedRun
<1>4. CASE at'[Watched] = "over"
  <2>1. (at'[Watched] = "look") = (at[Watched] = "look")
    BY <1>1, <1>4
  <2>2. \/ verdict'[Watched] = "step" /\ Control!MayFail
        \/ /\ seen[Watched] # "step-failed"
           /\ verdict'[Watched] = Control!VerdictOn(seen[Watched])
           /\ verdict'[Watched] = "timeout" => ~ Control!CanRest
    <3>1. \/ verdict'[Watched] = "step" /\ seen[Watched] = "step-failed"
          \/ verdict'[Watched] = TargetOf(mode[Watched]) /\ seen[Watched] = TargetOf(mode[Watched])
          \/ /\ verdict'[Watched] = "timeout"
             /\ seen[Watched] \in {SourceOf(mode[Watched])} \cup TRANSITIONING_STATES
             /\ ~ (spent[Watched] + Interval <= Max)
          \/ /\ verdict'[Watched] = "unexpected"
             /\ seen[Watched] \notin {"step-failed", SourceOf(mode[Watched]), TargetOf(mode[Watched])}
                                      \cup TRANSITIONING_STATES
      BY <1>4, WatchedAssumption, DecideCases
    <3>2. /\ "step-failed" \notin {"available", "stopped"} \cup TRANSITIONING_STATES
          /\ SourceOf(mode[Watched]) \in {"available", "stopped"}
          /\ TargetOf(mode[Watched]) \in {"available", "stopped"}
          /\ SourceOf(mode[Watched]) # TargetOf(mode[Watched])
          /\ TargetOf(mode[Watched]) \notin TRANSITIONING_STATES
      BY <1>1, ModeFacts DEF TRANSITIONING_STATES
    <3>3. Control!CanRest <=> spent[Watched] + Interval <= Max
      BY DEF Control!CanRest
    <3>4. Control!VerdictOn(seen[Watched]) =
            IF seen[Watched] = TargetOf(mode[Watched]) THEN seen[Watched]
            ELSE IF seen[Watched] \in {SourceOf(mode[Watched])} \cup TRANSITIONING_STATES
                 THEN "timeout" ELSE "unexpected"
      BY <1>2, <3>2, SameWords DEF Control!VerdictOn
    <3>5. seen[Watched] = "step-failed" => Control!MayFail
      BY DEF Control!MayFail
    <3> QED BY <3>1, <3>2, <3>3, <3>4, <3>5
  <2>3. ~ (at[Watched] = "look")
    BY <1>1
  <2> QED BY <1>1, <2>1, <2>2, <2>3 DEF Control!Conclude, Control!Watching
<1> QED BY <1>3, <1>4

LEMMA CommandMaps ==
    ASSUME SharedInv, CommandSucceeds(Watched) \/ CommandFails(Watched)
    PROVE  Control!Command \/ UNCHANGED mappedRun(Watched)
<1>1. /\ at[Watched] = "command" /\ verdict[Watched] = "none"
      /\ seen[Watched] = SourceOf(mode[Watched]) /\ spent[Watched] + Interval <= Max
      /\ UNCHANGED <<mode, seen, spent, verdict>>
  BY WatchedAssumption DEF CommandSucceeds, CommandFails, SharedInv, RunInv
<1>2. at'[Watched] \in {"command", "rest"}
  BY <1>1, WatchedAssumption DEF CommandSucceeds, CommandFails, SharedInv, SharedTypeOK
<1>3. (at'[Watched] = "look") = (at[Watched] = "look") /\ ~ (at[Watched] = "look")
  BY <1>1, <1>2
<1>4. CASE Accept(Watched)
  BY <1>1, <1>3, <1>4, SameWords DEF Accept, Control!Command, Control!Watching, Control!CanRest
<1>5. CASE UNCHANGED status
  BY <1>1, <1>3, <1>5 DEF mappedRun
<1> QED BY <1>4, <1>5 DEF CommandSucceeds, CommandFails

LEMMA GiveUpMaps == SharedInv /\ GiveUp(Watched) => Control!Conclude
<1> SUFFICES ASSUME SharedInv, GiveUp(Watched) PROVE Control!Conclude
  OBVIOUS
<1>1. /\ at[Watched] = "command" /\ verdict[Watched] = "none"
      /\ seen[Watched] = SourceOf(mode[Watched]) /\ spent[Watched] + Interval <= Max
      /\ UNCHANGED <<mode, status, seen, spent>>
  BY WatchedAssumption DEF GiveUp, SharedInv, RunInv
<1>2. at'[Watched] = "over" /\ verdict'[Watched] = "step"
  BY WatchedAssumption DEF GiveUp, EndWith, SharedInv, SharedTypeOK
<1>3. (at'[Watched] = "look") = (at[Watched] = "look") /\ ~ (at[Watched] = "look")
  BY <1>1, <1>2
<1>4. Control!MayFail
  BY <1>1, SameWords DEF Control!MayFail, Control!CanRest
<1> QED BY <1>1, <1>2, <1>3, <1>4 DEF Control!Conclude, Control!Watching

LEMMA RestMaps == SharedInv /\ Rest(Watched) => Control!Rest
<1> SUFFICES ASSUME SharedInv, Rest(Watched) PROVE Control!Rest
  OBVIOUS
<1>1. /\ at[Watched] = "rest" /\ verdict[Watched] = "none"
      /\ seen[Watched] \in {SourceOf(mode[Watched])} \cup TRANSITIONING_STATES
      /\ spent[Watched] + Interval <= Max
      /\ UNCHANGED <<mode, status, seen, verdict>>
  BY WatchedAssumption DEF Rest, SharedInv, RunInv
<1>2. at'[Watched] = "look" /\ spent'[Watched] = spent[Watched] + Interval
  BY WatchedAssumption DEF Rest, SharedInv, SharedTypeOK
<1>3. (at'[Watched] = "look") = TRUE /\ ~ (at[Watched] = "look")
  BY <1>1, <1>2
<1> QED BY <1>1, <1>2, <1>3, SameWords DEF Control!Rest, Control!Watching, Control!CanRest

\* A step of another run is a change of status, or nothing.
LEMMA OtherMaps ==
    ASSUME SharedInv, SharedTypeOK', UNCHANGED runState(Watched)
    PROVE  Control!StatusChanges \/ UNCHANGED mappedRun(Watched)
<1>1. /\ status \in Statuses /\ status' \in Statuses
      /\ (at'[Watched] = "look") = (at[Watched] = "look")
      /\ UNCHANGED <<mode[Watched], seen[Watched], spent[Watched], verdict[Watched]>>
  BY DEF SharedInv, SharedTypeOK, runState
<1>2. <<status, status'>> \in Statuses \X Statuses
  BY <1>1
<1> QED BY <1>1, <1>2 DEF Control!StatusChanges

LEMMA SharedStepMaps ==
    SharedInv /\ SharedInv' /\ [SharedNext]_sharedVars => [Control!ControlNext]_(mappedRun(Watched))
<1> SUFFICES ASSUME SharedInv, SharedInv', [SharedNext]_sharedVars
             PROVE  Control!ControlNext \/ UNCHANGED mappedRun(Watched)
  OBVIOUS
<1> USE DEF Control!ControlNext
<1>1. CASE RunStep(Watched)
  BY <1>1, LookAtMaps, DecideMaps, CommandMaps, GiveUpMaps, RestMaps DEF RunStep
<1>2. ASSUME NEW r \in Runs, r # Watched, RunStep(r)
      PROVE  Control!ControlNext \/ UNCHANGED mappedRun(Watched)
  BY <1>2, OthersUnchanged, OtherMaps, WatchedAssumption DEF SharedInv
<1>3. CASE StatusMoves \/ UNCHANGED sharedVars
  <2>1. UNCHANGED runState(Watched)
    BY <1>3 DEF StatusMoves, sharedVars, runState
  <2> QED BY <2>1, OtherMaps DEF SharedInv
<1> QED BY <1>1, <1>2, <1>3 DEF SharedNext

\* Any of any number of runs of one resource implements ResourceControl: what is
\* proved of one run holds of each when they overlap.
THEOREM OverlapRefines == SharedSpec => RunIsControlled
<1>1. SharedInit => Control!ControlInit
  BY WatchedInit
<1>2. SharedInv /\ SharedInv' /\ [SharedNext]_sharedVars => [Control!ControlNext]_(Control!controlVars)
  <2>1. UNCHANGED mappedRun(Watched) => UNCHANGED Control!controlVars
    BY DEF mappedRun, Control!controlVars
  <2> QED BY <2>1, SharedStepMaps
<1> QED BY <1>1, <1>2, SharedInitInv, SharedStepInv, PTL
        DEF SharedSpec, RunIsControlled, Control!ControlSpec
-------------------------------------------------------------------------------
(* No step of a run leads back. *)

LEMMA PhaseValues ==
    /\ Phase("look") = 0 /\ Phase("decide") = 1 /\ Phase("command") = 2
    /\ Phase("rest") = 3 /\ Phase("over") = 4
BY DEF Phase

LEMMA RunLeadsOn ==
    ASSUME SharedInv, NEW r \in Runs, RunStep(r)
    PROVE  at[r] # "over" /\ LeadsOn(r)
<1>1. /\ at \in [Runs -> {"look", "decide", "command", "rest", "over"}]
      /\ spent \in [Runs -> 0 .. Max] /\ tries \in [Runs -> 0 .. Attempts]
      /\ Interval \in Nat \ {0} /\ Max \in Nat
  BY WaitNumbers DEF SharedInv, SharedTypeOK
<1>2. CASE LookAt(r)
  <2>1. at[r] = "look" /\ at'[r] = "decide" /\ spent' = spent
    BY <1>1, <1>2 DEF LookAt
  <2> QED BY <2>1, PhaseValues DEF LeadsOn
<1>3. CASE Decide(r)
  <2>1. at[r] = "decide" /\ at'[r] \in {"command", "rest", "over"} /\ spent' = spent
    BY <1>3, DecideCases DEF Decide
  <2> QED BY <2>1, PhaseValues DEF LeadsOn
<1>4. CASE CommandSucceeds(r) \/ GiveUp(r)
  <2>1. at[r] = "command" /\ at'[r] \in {"rest", "over"} /\ spent' = spent
    BY <1>1, <1>4 DEF CommandSucceeds, GiveUp, EndWith
  <2> QED BY <2>1, PhaseValues DEF LeadsOn
<1>5. CASE CommandFails(r)
  <2>1. /\ at[r] = "command" /\ UNCHANGED <<at, spent>>
        /\ tries[r] < Attempts /\ tries'[r] = tries[r] + 1
    BY <1>1, <1>5 DEF CommandFails
  <2> QED BY <1>1, <2>1, AttemptsAssumption DEF LeadsOn
<1>6. CASE Rest(r)
  <2>1. at[r] = "rest" /\ spent[r] + Interval <= Max
    BY <1>6 DEF Rest, SharedInv, RunInv
  <2>2. spent'[r] = spent[r] + Interval
    BY <1>1, <1>6 DEF Rest
  <2> QED BY <1>1, <2>1, <2>2 DEF LeadsOn
<1> QED BY <1>2, <1>3, <1>4, <1>5, <1>6 DEF RunStep

\* For any number of runs in any modes, and whatever they do to one another: every
\* step of a run leads that run on towards its end, and no other run back.
THEOREM OverlappingRunsLeadOn == SharedSpec => OverlapLeadsOn
<1> DEFINE Onward ==
      \/ <<status, status'>> \in Drift /\ UNCHANGED <<at, seen, spent, tries, commands, verdict>>
      \/ \E r \in Runs :
            /\ at[r] # "over" /\ LeadsOn(r)
            /\ \A q \in Runs \ {r} :
                  UNCHANGED <<at[q], seen[q], spent[q], tries[q], commands[q], verdict[q]>>
<1>1. SharedInv /\ [SharedNext]_sharedVars => [Onward]_sharedVars
  <2> SUFFICES ASSUME SharedInv, [SharedNext]_sharedVars PROVE [Onward]_sharedVars
    OBVIOUS
  <2>1. ASSUME NEW r \in Runs, RunStep(r) PROVE Onward
    BY <2>1, RunLeadsOn, OthersUnchanged DEF runState
  <2>2. CASE StatusMoves
    <3>1. PICK change \in Drift : change[1] = status /\ status' = change[2]
      BY <2>2 DEF StatusMoves
    <3>2. change = <<change[1], change[2]>>
      BY SharedStatusesAssumption
    <3> QED BY <2>2, <3>1, <3>2 DEF StatusMoves
  <2> QED BY <2>1, <2>2 DEF SharedNext
<1> QED BY <1>1, SharedInitInv, SharedStepInv, PTL DEF SharedSpec, OverlapLeadsOn
===============================================================================
