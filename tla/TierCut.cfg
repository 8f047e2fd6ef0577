SPECIFICATION Spec
CONSTANTS
    Hash = {a}
    Proc = {p}
    NoHash = nohash
    Ceiling = 0
    Lot = 1
    MaxFaults = 1
INVARIANT
    WorstCaseIsADuplicate
CHECK_DEADLOCK FALSE
