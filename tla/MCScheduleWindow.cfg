\* The default schedules with the settings of the construct, one delivery retry
\* less, and with what Lambda does when nothing else is set: two retries, 6 h.
CONSTANTS
    Crons                     <- DefaultCrons
    GapChanges                <- MCGapChanges
    SCHEDULE_RETRY_ATTEMPTS   = 1
    SCHEDULE_MAX_EVENT_AGE    = 120
    DURABLE_EXECUTION_TIMEOUT = 120
    FunctionRetries           = 2
    FunctionEventAge          = 360
    Tick                      = 120
    MaxFirings                = 2
SPECIFICATION FairWindowSpec
INVARIANTS
    WindowTypeOK
    RunsWithinItsFiring
    ExecutionsBounded
PROPERTIES
    EveryFiringEnds
