CONSTANTS
    N = 2
    ServerSide <- First
    Recreated <- Last
    Stubborn <- Nobody
    MaxRetries = 2
    MaxPasses = 2
    Polls = 2
    JobFaults = 1
SPECIFICATION FairSpec
CHECK_DEADLOCK FALSE
INVARIANT TypeOK
PROPERTIES
    WorkShrinks
    Ends
    DeletedAppsReturn
