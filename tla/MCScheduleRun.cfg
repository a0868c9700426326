\* One execution: three targets, two at a time, two waits each.  One batch fits in the
\* timeout with all steps and a crash (5 + 2 + 8 = 15 s), two batches do not (23 s).
CONSTANTS
    Mode             = "start"
    Interval         = 2
    Max              = 4
    MaxConcurrency   = 2
    ExecutionTimeout = 16
    StepSeconds      <- OneSecond
    CallSeconds      <- MCCallSeconds
    Observed         <- MCObserved
    MaxTargets       = 3
    MaxCrashes       = 1
    MaxParents       = 2
    Watched          = 3
SPECIFICATION FairRunSpec
INVARIANTS
    RunTypeOK
    FailsAfterAll
    SuccessMeansAll
    OneThread
    FailureLogged
    RunTimeBounded
PROPERTIES
    EveryStepLeadsOn
    KeepsPromise
    ChildIsControlled
    EventuallyReturns
