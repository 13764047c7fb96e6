\* Two supervisor runs, one of which may work for a message of the other.
SPECIFICATION SupFairSpec
CONSTANTS
    lead = lead
    hand = hand
    Runs = {r1, r2}
    MaxSubtasks = 2
    Calls <- MCCalls
    Names = {lead, hand}
    Chans = {ch1, ch2}
    QueueCapacity = 1
    Concurrency = 1
    Delegates <- MCDelegates
    TopLevel = {lead}
    NoChan = NoChan
    NoCall = NoCall
INVARIANTS
    SupTypeOK
    InOrder
    OkMeansAllDone
PROPERTY OnlyCirclesWait
\* The system stops once every run returned and every receiver is gone.
CHECK_DEADLOCK FALSE
