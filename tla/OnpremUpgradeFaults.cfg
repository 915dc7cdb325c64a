CONSTANTS
    catalog = catalog
    mps = mps
    rps = rps
    Catalog = catalog
    Dbs <- MCDbs
    Held <- MCHeld
    Faults <- FaultKinds
    MaxFaults = 2
    Gens = 1
    Replicas = 1
SPECIFICATION Spec
CHECK_DEADLOCK FALSE
INVARIANTS
    TypeOK
    PasswordsRecoverable
PROPERTY HeldInCustody
