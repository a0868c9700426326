\* The README's "Safe to run again", with RDS the only one that changes the
\* status apart from the calls.
CONSTANTS
    Statuses     <- QuietStatuses
    Drift        <- QuietDrift
    WaitSettings <- OneWaitSetting
    MaxCrashes   = 1
SPECIFICATION Spec
INVARIANTS
    NoCallInTargetState
