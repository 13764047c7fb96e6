\* The documented reading of SendError, refuted by the blocking send.
SPECIFICATION Spec
CONSTANTS
    Calls = {c1, c2}
    Names = {n1}
    Chans = {ch1}
    QueueCapacity = 1
    Concurrency = 1
    NoChan = NoChan
PROPERTY FullQueueIsSendError
CHECK_DEADLOCK FALSE
