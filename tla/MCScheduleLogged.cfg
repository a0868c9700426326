\* The log filter: one place for two targets, each of which may wait for four of the
\* five seconds of the execution.
CONSTANTS
    Mode             = "start"
    Interval         = 2
    Max              = 4
    MaxConcurrency   = 1
    ExecutionTimeout = 5
    StepSeconds      <- NoSeconds
    CallSeconds      <- NoSeconds
    Observed         <- StuckObserved
    MaxTargets       = 2
    MaxCrashes       = 0
    MaxParents       = 1
    Watched          = 2
SPECIFICATION RunSpec
INVARIANTS
    EveryFailedExecutionLogged
