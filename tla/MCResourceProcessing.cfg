\* One resource in every configuration of Configurations, with a status that RDS and
\* others change, for ever if they like: safety, action properties, the refinements,
\* and that it ends.
CONSTANTS
    Statuses     <- MCStatuses
    Drift        <- MCDrift
    WaitSettings <- MCWaitSettings
    MaxCrashes   = 2
SPECIFICATION FairSpec
INVARIANTS
    TypeOK
    GivesUpOnlyWhenSpent
    CommandJustified
    SuccessIsObserved
    ReportsAgree
PROPERTIES
    CallsFollowLog
    LoopLeadsOn
    ImplementsControl
    ActsAsChild
    EventuallySettles
