SPECIFICATION Spec
CONSTANTS
    NTokens = 3
    NSessions = 2
    NLogins = 2
    NShares = 2
    Proc = {p, q}
    Person = {u, v}
    Never = never
    Garbled = garbled
    TokenTtls = {0}
    ShareTtls = {0}
    SessionTtl = 0
    LoginTtl = 1
    TicketTtl = 0
    DayLen = 2
    Burst = 1
    Period = 1
    MaxNow = 1
    MaxOps = 3
    MaxKeys = 2
    MaxFaults = 0
CONSTRAINT Focus
SYMMETRY Symmetry
INVARIANT OneSessionPerLogin
CHECK_DEADLOCK FALSE
