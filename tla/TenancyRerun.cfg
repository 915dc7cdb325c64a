CONSTANTS
    s1 = s1
    s2 = s2
    t1 = t1
    w1 = w1
    unset = unset
    Strong = {s1, s2}
    Short = {t1}
    Weak = {w1}
    EnvPasswords = {unset, s1}
    Unset = unset
    First = s1
    Ticks = 1
    Tries = 2
    Commands <- UserSetup
    MaxCommands = 4
    MaxFails = 1
SPECIFICATION Spec
CHECK_DEADLOCK FALSE
PROPERTIES
    UsersAreComplete
