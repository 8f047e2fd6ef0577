SPECIFICATION Spec
CONSTANTS
    a = a
    b = b
    Hash = {a, b}
    Content <- SharedChunk
    Name = {n1}
    CopyName = copy
    NoVersion = none
    Req = {r1, r2}
    MaxFiles = 2
    MaxFaults = 1
PROPERTIES
    UnheldRowsAreSwept
CHECK_DEADLOCK FALSE
