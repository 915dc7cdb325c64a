CONSTANTS
    Dev <- AllFeatures
    Presets <- PresetFiles
    Disabled <- Profiles
    Limit <- Durations
    Shares = 2
    Threshold = 2
    Ticks = 1
    Commands <- AllCommands
    MaxCommands = 3
    MaxFails = 1
SPECIFICATION FairSpec
CHECK_DEADLOCK FALSE
INVARIANTS
    TypeOK
    ProxyIsOnFile
PROPERTIES
    GiteaSecretsMatchAccounts
    RedeployWorks
    DeploymentIsConnected
    UnsealedWhenReported
    DegradedIsReported
