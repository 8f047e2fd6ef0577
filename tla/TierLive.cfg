SPECIFICATION Spec
CONSTANTS
    Hash = {a}
    Proc = {p}
    NoHash = nohash
    Ceiling = 0
    Lot = 1
    MaxFaults = 1
PROPERTIES
    DuplicatesAreCorrected
    CeilingIsReached
CHECK_DEADLOCK FALSE
