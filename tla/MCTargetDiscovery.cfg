\* Discovery and deduplication over two regions, pages of two, two changes and two
\* restarts.
CONSTANTS
    Arns           <- MCArns
    ClusterOf      <- MCClusterOf
    EnabledRegions <- MCEnabledRegions
    TargetRegions  <- MCTargetRegions
    PageSize       = 2
    MaxChanges     = 2
    MaxRestarts    = 2
SPECIFICATION DiscoverySpec
INVARIANTS
    DiscoveryTypeOK
    JustMembersDropped
    NothingMissed
    NoTargetTwice
PROPERTIES
    DiscoveryIsControlled
