CONSTANTS
    catalog = catalog
    mps = mps
    rps = rps
    Catalog = catalog
    Dbs <- MCDbs
    Held <- MCHeld
    Faults <- CompletableFaults
    MaxFaults = 2
    Gens = 2
    Replicas = 1
SPECIFICATION FairSpec
CHECK_DEADLOCK FALSE
INVARIANT UpgradeKeepsPasswords
PROPERTIES
    UpgradeCompletes
    PasswordsReturned
    HeldReturned
    ServiceRestored
