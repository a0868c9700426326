--------------------------- MODULE OverlappingRuns ---------------------------
(***************************************************************************)
(* Several executions controlling the same resource: the duplicates and    *)
(* the retries of one firing, or a start and a stop whose crons are closer *)
(* than the executions are long.  Nothing keeps them apart: they share the *)
(* resource, and each only knows what it looked at last.                   *)
(*                                                                         *)
(* A run is the loop of `processing` as ResourceControl has it; a command  *)
(* is sent up to Attempts times, RDS rejects it when another run was       *)
(* quicker, and an accepted one may lose its reply.                        *)
(***************************************************************************)
EXTENDS RunningScheduleWait

CONSTANTS
    Runs,           \* executions that reach the resource
    Statuses,       \* statuses RDS may report
    Drift,          \* pairs <<from, to>>: what RDS does by itself
    Interval, Max,  \* the wait settings
    Attempts,       \* how often one command step is tried
    Watched         \* any one of Runs, for which the refinement is stated

ASSUME SharedStatusesAssumption ==
    /\ {"available", "stopped", "starting", "stopping"} \subseteq Statuses
    /\ {"step-failed", "none", "not-found", "gone"} \cap Statuses = {}
    /\ Drift \subseteq Statuses \X Statuses
ASSUME SharedWaitAssumption == resolveResourceWait(Interval, Max)
ASSUME AttemptsAssumption == Attempts \in Nat \ {0}
\* RDS by itself neither starts a stopped resource nor stops a running one.
ASSUME SidesAssumption ==
    \E Side \in [Modes -> SUBSET Statuses] :
        \A m \in Modes :
            /\ TargetOf(m) \in Side[m]
            /\ SourceOf(m) \notin Side[m]
            /\ \A change \in Drift : change[1] \in Side[m] => change[2] \in Side[m]
ASSUME WatchedAssumption == Watched \in Runs

VARIABLES
    mode,       \* what each run is for: never changes
    status,     \* status of the resource
    at,         \* where each run is
    seen,       \* its latest look
    spent,      \* seconds it rested
    tries,      \* attempts of its current command step
    commands,   \* calls of it that RDS accepted
    verdict,    \* how it ended
    latest      \* the run that looked last

sharedVars == <<mode, status, at, seen, spent, tries, commands, verdict, latest>>

SharedInit ==
    /\ mode \in [Runs -> Modes]
    /\ status \in Statuses
    /\ at = [r \in Runs |-> "look"]
    /\ seen = [r \in Runs |-> "none"]
    /\ spent = [r \in Runs |-> 0]
    /\ tries = [r \in Runs |-> 0]
    /\ commands = [r \in Runs |-> 0]
    /\ verdict = [r \in Runs |-> "none"]
    /\ latest \in Runs

\* The describe step of an iteration; it may fail.
LookAt(r) ==
    /\ at[r] = "look"
    /\ \E observation \in {status, "step-failed"} :
          seen' = [seen EXCEPT ![r] = observation]
    /\ at' = [at EXCEPT ![r] = "decide"]
    /\ latest' = r
    /\ UNCHANGED <<mode, status, spent, tries, commands, verdict>>

EndWith(r, how) ==
    /\ verdict' = [verdict EXCEPT ![r] = how]
    /\ at' = [at EXCEPT ![r] = "over"]

\* nextWaitStep on the latest look, which may be outdated by now.
Decide(r) ==
    /\ at[r] = "decide"
    /\ LET step == nextWaitStep(mode[r], seen[r], spent[r], Interval, Max) IN
       \/ seen[r] = "step-failed" /\ EndWith(r, "step")
       \/ seen[r] # "step-failed" /\ step.kind # "pause" /\ EndWith(r, step.value)
       \/ /\ seen[r] # "step-failed"
          /\ step.kind = "pause"
          /\ at' = [at EXCEPT ![r] = IF step.value = "none" THEN "rest" ELSE "command"]
          /\ UNCHANGED verdict
    /\ UNCHANGED <<mode, status, seen, spent, tries, commands, latest>>

\* RDS takes the call, which begins the transition, or leaves it.
Accept(r) ==
    /\ status = SourceOf(mode[r])
    /\ status' = IF mode[r] = "start" THEN "starting" ELSE "stopping"
    /\ commands' = [commands EXCEPT ![r] = @ + 1]

\* Mutated form: the command is taken for its effect.
CommandSucceeds_trusting(r) ==
    /\ at[r] = "command"
    /\ tries[r] < Attempts
    /\ Accept(r)
    /\ EndWith(r, TargetOf(mode[r]))
    /\ tries' = [tries EXCEPT ![r] = 0]
    /\ UNCHANGED <<mode, seen, spent, latest>>

CommandSucceeds(r) ==
    /\ at[r] = "command"
    /\ tries[r] < Attempts
    /\ Accept(r)
    /\ at' = [at EXCEPT ![r] = "rest"]
    /\ tries' = [tries EXCEPT ![r] = 0]
    /\ UNCHANGED <<mode, seen, spent, verdict, latest>>

\* Mutated form: a command step is tried until it succeeds.
CommandFails_unlimited(r) ==
    /\ at[r] = "command"
    /\ Accept(r) \/ UNCHANGED <<status, commands>>
    /\ UNCHANGED <<mode, at, seen, spent, tries, verdict, latest>>

\* The reply is lost, or RDS rejects the call.
CommandFails(r) ==
    /\ at[r] = "command"
    /\ tries[r] < Attempts
    /\ Accept(r) \/ UNCHANGED <<status, commands>>
    /\ tries' = [tries EXCEPT ![r] = @ + 1]
    /\ UNCHANGED <<mode, at, seen, spent, verdict, latest>>

\* The command step has used up its attempts, and fails.
GiveUp(r) ==
    /\ at[r] = "command"
    /\ tries[r] = Attempts
    /\ EndWith(r, "step")
    /\ UNCHANGED <<mode, status, seen, spent, tries, commands, latest>>

\* Mutated form: an interval after a command is not counted.
Rest_afterWait(r) ==
    /\ at[r] = "rest"
    /\ at' = [at EXCEPT ![r] = "look"]
    /\ spent' = [spent EXCEPT ![r] = IF seen[r] = SourceOf(mode[r]) THEN @ ELSE @ + Interval]
    /\ UNCHANGED <<mode, status, seen, tries, commands, verdict, latest>>

\* Mutated form: only the interval after a command is counted.
Rest_afterCommand(r) ==
    /\ at[r] = "rest"
    /\ at' = [at EXCEPT ![r] = "look"]
    /\ spent' = [spent EXCEPT ![r] = IF seen[r] = SourceOf(mode[r]) THEN @ + Interval ELSE @]
    /\ UNCHANGED <<mode, status, seen, tries, commands, verdict, latest>>

\* The wait of an iteration elapses.
Rest(r) ==
    /\ at[r] = "rest"
    /\ at' = [at EXCEPT ![r] = "look"]
    /\ spent' = [spent EXCEPT ![r] = @ + Interval]
    /\ UNCHANGED <<mode, status, seen, tries, commands, verdict, latest>>

RunStep(r) ==
    \/ LookAt(r) \/ Decide(r) \/ Rest(r)
    \/ CommandSucceeds(r) \/ CommandFails(r) \/ GiveUp(r)

\* RDS completes a transition, or begins maintenance.
StatusMoves ==
    /\ \E change \in Drift : change[1] = status /\ status' = change[2]
    /\ UNCHANGED <<mode, at, seen, spent, tries, commands, verdict, latest>>

AllOver == \A r \in Runs : at[r] = "over"

SharedNext ==
    \/ \E r \in Runs : RunStep(r)
    \/ StatusMoves
    \/ AllOver /\ UNCHANGED sharedVars

SharedSpec == SharedInit /\ [][SharedNext]_sharedVars

\* The service keeps each execution going, whatever the others do.
FairSharedSpec == SharedSpec /\ \A r \in Runs : WF_sharedVars(RunStep(r))

-------------------------------------------------------------------------------
(* Properties. *)

Verdicts == {"available", "stopped", "unexpected", "timeout", "step"}

\* Type invariant.
SharedTypeOK ==
    /\ mode \in [Runs -> Modes]
    /\ status \in Statuses
    /\ at \in [Runs -> {"look", "decide", "command", "rest", "over"}]
    /\ seen \in [Runs -> Statuses \cup {"step-failed", "none"}]
    /\ spent \in [Runs -> 0 .. Max]
    /\ tries \in [Runs -> 0 .. Attempts]
    /\ commands \in [Runs -> Nat]
    /\ verdict \in [Runs -> Verdicts \cup {"none"}]
    /\ latest \in Runs

\* A start and a stop that undo each other do so a limited number of times:
\* each command costs its run an interval, and its step a number of attempts.
CommandsBounded ==
    \A r \in Runs : commands[r] * Interval <= Attempts * Max

\* When runs overlap, the last to look at the resource decides: once all of them
\* report success, the resource is not in the state that run moves it away from.
LastLookHolds ==
    (\A r \in Runs : verdict[r] = TargetOf(mode[r])) => status # SourceOf(mode[latest])

\* How far a run is in the loop of one iteration.
Phase(where) ==
    CASE where = "look"    -> 0
      [] where = "decide"  -> 1
      [] where = "command" -> 2
      [] where = "rest"    -> 3
      [] where = "over"    -> 4

\* A run has rested within its maximum, is further in its iteration, or has used up
\* an attempt of its command step.
LeadsOn(r) ==
    \/ spent'[r] > spent[r] /\ spent'[r] <= Max
    \/ spent'[r] = spent[r] /\ Phase(at'[r]) > Phase(at[r])
    \/ /\ UNCHANGED <<spent[r], at[r]>>
       /\ tries'[r] > tries[r] /\ tries'[r] <= Attempts

\* Runs that undo what the others did do not go round in circles, nor do they hold
\* each other up: what happens to the resource by itself leaves all runs where they
\* are, and every other step leads one run on that is not over, whatever status the
\* others made it find, and leaves the others where they are.
OverlapLeadsOn ==
    [][ \/ <<status, status'>> \in Drift /\ UNCHANGED <<at, seen, spent, tries, commands, verdict>>
        \/ \E r \in Runs :
              /\ at[r] # "over" /\ LeadsOn(r)
              /\ \A q \in Runs \ {r} :
                    UNCHANGED <<at[q], seen[q], spent[q], tries[q], commands[q], verdict[q]>>
      ]_sharedVars

\* Overlapping runs all end, under FairSharedSpec, even when they keep undoing
\* what the others did.
AllRunsEnd == <>AllOver

-------------------------------------------------------------------------------
(* Refinement: for one run, the others are but changes of status. *)

Control == INSTANCE ResourceControl
    WITH params  <- [mode |-> mode[Watched], type |-> "db", slack |-> FALSE, notify |-> FALSE,
                     interval |-> Interval, max |-> Max],
         seen    <- seen[Watched],
         rested  <- at[Watched] = "look",
         spent   <- spent[Watched],
         verdict <- verdict[Watched],
         Drift   <- Statuses \X Statuses,
         WaitSettings <- {<<Interval, Max>>}

\* A run controls the resource as ResourceControl promises, whatever the others
\* do to the resource meanwhile.
RunIsControlled == Control!ControlSpec
===============================================================================
