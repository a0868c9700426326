\* Every combination of props around the bounds.
CONSTANTS
    Seconds     <- MCSeconds
    RegionLists <- MCRegionLists
    SecretNames = {"", "slack/bot"}
    TagKeys     = {"", "schedule"}
    TagValues   = {"YES", "NO"}
    Untagged    = "-"
SPECIFICATION ConfigSpec
INVARIANTS
    ConfigTypeOK
    DeployedIsAccepted
    RegionsMeanWhatPropsSay
    FoundMayBeControlled
    SlackNeedsGrant
