\* Two runs in every combination of modes: two waits each, two attempts of a
\* command.
CONSTANTS
    Runs     = {r1, r2}
    Statuses <- MCStatuses
    Drift    <- MCDrift
    Interval = 2
    Max      = 5
    Attempts = 2
    Watched  = r1
SPECIFICATION FairSharedSpec
INVARIANTS
    SharedTypeOK
    CommandsBounded
    LastLookHolds
PROPERTIES
    RunIsControlled
    OverlapLeadsOn
    AllRunsEnd
