CONSTANTS
    N = 1
    ServerSide <- Nobody
    Recreated <- Nobody
    Stubborn <- First
    MaxRetries = 2
    MaxPasses = 1
    Polls = 2
    JobFaults = 0
SPECIFICATION FairSpec
CHECK_DEADLOCK FALSE
PROPERTY Ends
