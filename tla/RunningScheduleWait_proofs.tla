---------------------- MODULE RunningScheduleWait_proofs ----------------------
(***************************************************************************)
(* What the wait decisions return, for every status, every elapsed time    *)
(* and every setting.                                                      *)
(***************************************************************************)
EXTENDS RunningScheduleWait, TLAPS

\* decideResourceAction sorts the observations into five kinds.
LEMMA ActionCases ==
    ASSUME NEW m \in Modes, NEW current
    PROVE  LET action == decideResourceAction(m, current)
           IN  \/ current = "not-found" /\ action = "not-found"
               \/ current = TargetOf(m) /\ action = "done"
               \/ current = SourceOf(m) /\ action = m
               \/ current \in TRANSITIONING_STATES /\ action = "wait"
               \/ /\ current \notin {"not-found", TargetOf(m), SourceOf(m)}
                  /\ current \notin TRANSITIONING_STATES
                  /\ action = "unexpected"
<1>1. "not-found" # TargetOf(m) /\ "not-found" # SourceOf(m)
  BY DEF TargetOf, SourceOf
<1>2. TargetOf(m) # SourceOf(m)
  BY DEF TargetOf, SourceOf
<1>3. /\ "not-found" \notin TRANSITIONING_STATES
      /\ TargetOf(m) \notin TRANSITIONING_STATES
      /\ SourceOf(m) \notin TRANSITIONING_STATES
  BY DEF TargetOf, SourceOf, TRANSITIONING_STATES
<1> QED BY <1>1, <1>2, <1>3 DEF decideResourceAction, isTransitioningState

\* What nextWaitStep returns for each observation: the six cases of the code.
LEMMA DecisionCases ==
    ASSUME NEW m \in Modes, NEW current,
           NEW elapsed \in Int, NEW interval \in Int, NEW max \in Int
    PROVE  LET step == nextWaitStep(m, current, elapsed, interval, max)
               moving == {SourceOf(m)} \cup TRANSITIONING_STATES
           IN  \/ current = "not-found" /\ step = Finish("skipped")
               \/ current = TargetOf(m) /\ step = Finish(current)
               \/ /\ current = SourceOf(m)
                  /\ elapsed + interval <= max
                  /\ step = Pause(m)
               \/ /\ current \in TRANSITIONING_STATES
                  /\ elapsed + interval <= max
                  /\ step = Pause("none")
               \/ /\ current \in moving
                  /\ elapsed + interval > max
                  /\ step = Throw("timeout")
               \/ /\ current \notin moving \cup {TargetOf(m), "not-found"}
                  /\ step = Throw("unexpected")
<1> DEFINE action == decideResourceAction(m, current)
<1>1. /\ \A x \in Modes : x \notin {"not-found", "done", "unexpected", "wait"}
      /\ Modes \cup {"wait"} = {"start", "stop", "wait"}
  BY DEF Modes
<1>2. CASE action = "not-found"
  BY <1>1, <1>2, ActionCases DEF nextWaitStep
<1>3. CASE action = "done"
  BY <1>1, <1>3, ActionCases DEF nextWaitStep
<1>4. CASE action = m
  BY <1>1, <1>4, ActionCases DEF nextWaitStep, hasWaitBudget
<1>5. CASE action = "wait"
  BY <1>1, <1>5, ActionCases DEF nextWaitStep, hasWaitBudget
<1>6. CASE action = "unexpected"
  BY <1>1, <1>6, ActionCases DEF nextWaitStep
<1> QED BY <1>2, <1>3, <1>4, <1>5, <1>6, ActionCases

\* Products of the numbers that are counted in intervals.
LEMMA Products ==
    ASSUME NEW a \in Nat, NEW b \in Nat, NEW c \in Nat
    PROVE  /\ a * b \in Nat
           /\ (a + 1) * b = a * b + b
           /\ a * (b + c) = a * b + a * c
           /\ a <= c => a * b <= c * b
           /\ b <= c => a * b <= a * c
<1>1. a * b \in Nat
  OBVIOUS
<1>2. (a + 1) * b = a * b + b /\ a * (b + c) = a * b + a * c
  OBVIOUS
<1>3. a <= c => a * b <= c * b
  OBVIOUS
<1>4. b <= c => a * b <= a * c
  OBVIOUS
<1> QED BY <1>1, <1>2, <1>3, <1>4
===============================================================================
