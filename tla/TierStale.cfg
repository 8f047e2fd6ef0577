SPECIFICATION Spec
CONSTANTS
    Hash = {a}
    Proc = {p}
    NoHash = nohash
    Ceiling = 0
    Lot = 1
    MaxFaults = 0
PROPERTY
    EveryReadRefreshes
CHECK_DEADLOCK FALSE
