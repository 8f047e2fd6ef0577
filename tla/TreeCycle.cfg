SPECIFICATION Spec
CONSTANTS
    NFolders = 2
    NFiles = 1
    Proc = {p, q}
    Sweeper = sweeper
    Keeps = {1}
    DefaultKeep = 0
    Unset = unset
    MaxOps = 2
    MaxDay = 1
    MaxFaults = 0
INVARIANT Acyclic
CHECK_DEADLOCK FALSE
