CONSTANTS
    catalog = catalog
    mps = mps
    rps = rps
    Catalog = catalog
    Dbs <- MCDbs
    Held <- MCHeld
    Faults <- TornWrite
    MaxFaults = 1
    Gens = 2
    Replicas = 1
SPECIFICATION Spec
CHECK_DEADLOCK FALSE
INVARIANT UpgradeKeepsPasswords
