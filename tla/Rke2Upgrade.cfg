CONSTANTS
    Listed <- AllVersions
    Target <- Latest
    Installed <- Anything
    Apart = TRUE
    Budget = 4
    MaxRuns = 3
SPECIFICATION FairSpec
CHECK_DEADLOCK FALSE
INVARIANTS
    TypeOK
    WaitsWithinBudget
PROPERTIES
    UpgradesStepwise
    OneUpgradeAtATime
    RunsReturn
