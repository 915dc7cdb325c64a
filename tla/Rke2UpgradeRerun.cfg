CONSTANTS
    Listed <- AllVersions
    Target <- Latest
    Installed <- JustBefore
    Apart = TRUE
    Budget = 1
    MaxRuns = 2
SPECIFICATION Spec
CHECK_DEADLOCK FALSE
INVARIANT SuccessMeansCompleted
