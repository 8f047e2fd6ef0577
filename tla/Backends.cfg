SPECIFICATION Spec
CONSTANTS
    Place = {env, x}
    EnvPlace = env
    NBackends = 3
    Byte = {0, 1}
    MaxKeys = 3
    Proc = {p, q}
    MaxOps = 4
    MaxFaults = 2
SYMMETRY Symmetry
INVARIANTS
    TypeOK
    StoredIsReadableUnlessExcused
    StartsUnlessExcused
CHECK_DEADLOCK FALSE
