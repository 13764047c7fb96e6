\* Two tasks append to one run_id at the same time.
SPECIFICATION Spec
CONSTANTS
    a = a
    b = b
    Clients = {a, b}
    Keys = {k1}
    Texts = {a, b}
    Kinds = {"append"}
    TTL = NoTTL
    NoTTL = NoTTL
    U64 = 4
    Checked = FALSE
    Writes <- MCWrites
    MaxNow = 0
    MaxOps = 1
    Exclusive = FALSE
INVARIANT NoAppendLost
CHECK_DEADLOCK FALSE
