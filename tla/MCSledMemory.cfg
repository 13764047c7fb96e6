\* Two tasks, two run_ids never used by both at once, entries that live one second; the
\* last deadlines do not fit into a u64, and the build checks for that.
SPECIFICATION Spec
CONSTANTS
    a = a
    b = b
    Clients = {a, b}
    Keys = {k1, k2}
    Texts = {a, b}
    Kinds = {"store", "load", "append", "clear"}
    TTL = 1
    NoTTL = NoTTL
    U64 = 4
    Checked = TRUE
    Writes <- MCWrites
    MaxNow = 3
    MaxOps = 2
    Exclusive = TRUE
INVARIANT TypeOK
PROPERTIES
    ImplementsService
    WriteRenewsDeadline
    OnlyExpiredEvicted
\* The system stops when the clients have used up their operations.
CHECK_DEADLOCK FALSE
