CONSTANTS
    s1 = s1
    s2 = s2
    t1 = t1
    w1 = w1
    unset = unset
    Strong = {s1, s2}
    Short = {t1}
    Weak = {w1}
    EnvPasswords = {unset, s1}
    Unset = unset
    First = s1
    Ticks = 1
    Tries = 2
    Commands <- AllCommands
    MaxCommands = 3
    MaxFails = 1
SPECIFICATION FairSpec
CHECK_DEADLOCK FALSE
INVARIANTS
    TypeOK
    SecretLogsIn
PROPERTIES
    MadeUsersAreComplete
    RolesAsAsked
    CommandsReturn
