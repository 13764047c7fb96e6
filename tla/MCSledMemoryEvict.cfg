\* Two tasks use one run_id at the same time, one entry expires.
SPECIFICATION Spec
CONSTANTS
    a = a
    b = b
    Clients = {a, b}
    Keys = {k1}
    Texts = {a, b}
    Kinds = {"store", "load"}
    TTL = 1
    NoTTL = NoTTL
    U64 = 8
    Checked = FALSE
    Writes <- MCWrites
    MaxNow = 3
    MaxOps = 2
    Exclusive = FALSE
PROPERTY OnlyExpiredEvicted
CHECK_DEADLOCK FALSE
