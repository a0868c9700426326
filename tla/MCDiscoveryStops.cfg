\* A db that is deleted between its discovery and the deduplication.
CONSTANTS
    Arns           <- MCArns
    ClusterOf      <- MCClusterOf
    EnabledRegions <- MCEnabledRegions
    TargetRegions  <- MCTargetRegions
    PageSize       = 2
    MaxChanges     = 1
    MaxRestarts    = 1
SPECIFICATION DiscoverySpec
INVARIANTS
    OneResourceDoesNotStopOthers
