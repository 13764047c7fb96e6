\* One run is enough to meet the text that makes parse_subtasks panic.
SPECIFICATION SupSpec
CONSTANTS
    lead = lead
    hand = hand
    Runs = {r1}
    MaxSubtasks = 1
    Calls <- MCCalls
    Names = {lead, hand}
    Chans = {ch1}
    QueueCapacity = 1
    Concurrency = 1
    Delegates <- MCDelegates
    TopLevel = {lead}
    NoChan = NoChan
    NoCall = NoCall
INVARIANT NoPanic
CHECK_DEADLOCK FALSE
