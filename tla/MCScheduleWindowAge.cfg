\* One firing with the settings of the construct, and with what Lambda does when
\* nothing else is set: two retries, six hours.
CONSTANTS
    Crons                     <- DefaultCrons
    GapChanges                <- MCGapChanges
    SCHEDULE_RETRY_ATTEMPTS   = 2
    SCHEDULE_MAX_EVENT_AGE    = 120
    DURABLE_EXECUTION_TIMEOUT = 120
    FunctionRetries           = 2
    FunctionEventAge          = 360
    Tick                      = 120
    MaxFirings                = 1
SPECIFICATION WindowSpec
INVARIANTS
    RetriedWhileEventIsYoung
