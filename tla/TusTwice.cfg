SPECIFICATION Spec
CONSTANTS
    Proc = {p, q}
    Resumer = resumer
    Nobody = nobody
    Sizes = {0, 1, 3}
    MaxFaults = 0
INVARIANT StoredOnce
CHECK_DEADLOCK FALSE
