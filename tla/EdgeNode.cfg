CONSTANTS
    Projects = {"sample-project", "other"}
    Sample = "sample-project"
    Labels = {"color"}
    Serials = {"serial"}
    Ticks = 1
    Families <- AllCommands
    MaxCommands = 3
    MaxFails = 1
SPECIFICATION FairSpec
CHECK_DEADLOCK FALSE
INVARIANTS
    TypeOK
PROPERTIES
    ResolverKept
    ClusterRunsOnItsNode
    EnicRedeploys
    OnPremRedeploys
    MaintenanceUndone
    CommandsReturn
