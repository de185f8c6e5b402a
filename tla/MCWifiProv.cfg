CONSTANTS
    Right = right
    Configs = {right, wrong}
    Unset = unset
    Unfit = unfit
    MAX_RETRY = 5
    HoldPolls = 3
    MaxPosts = 3
    MaxCuts = 1

SPECIFICATION Spec

INVARIANTS
    TypeOK
    RetryChainUnbroken
    NewConfigGetsRetries
    ResetForgetsInSta

PROPERTIES
    ProvisioningCompletes
    StationReconnects
