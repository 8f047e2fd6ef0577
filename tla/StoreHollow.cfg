SPECIFICATION Spec
CONSTANTS
    a = a
    b = b
    Hash = {a}
    Content <- OneChunk
    Name = {n1}
    CopyName = copy
    NoVersion = none
    Req = {r1, r2, r3}
    MaxFiles = 2
    MaxFaults = 1
SYMMETRY Symmetry
INVARIANTS
    IntactUnlessClash
CHECK_DEADLOCK FALSE
