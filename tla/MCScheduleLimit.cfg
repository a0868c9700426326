\* The real times: the greatest maximum wait the construct and the handler
\* accept and a timeout of two hours.  The places are scaled down from ten to
\* two, with one target more than there are places.
CONSTANTS
    Mode             = "start"
    Interval         = 6900
    Max              = 6900
    MaxConcurrency   = 2
    ExecutionTimeout = 7200
    StepSeconds      <- NoSeconds
    CallSeconds      <- NoSeconds
    Observed         <- StuckObserved
    MaxTargets       = 3
    MaxCrashes       = 0
    MaxParents       = 1
    Watched          = 3
SPECIFICATION RunSpec
INVARIANTS
    LimitFiresFirst
