\* Liveness: three calls, one name that may be registered twice; and topics of two
\* subscribers that a channel of two events may overrun.
SPECIFICATION BusFairSpec
CONSTANTS
    Calls = {c1, c2, c3}
    Names = {n1}
    Chans = {ch1, ch2}
    QueueCapacity = 1
    Concurrency = 1
    NoChan = NoChan
    Topics = {t1, t2}
    Subs = {s1, s2}
    TopicCapacity = 2
    MaxPublish = 3
INVARIANT NothingLostSilently
PROPERTIES
    EverySendReturns
    ReplacedWorkerEnds
CHECK_DEADLOCK FALSE
