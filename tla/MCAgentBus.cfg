\* Safety and refinement: four calls, two names, two channels with a queue of two.
SPECIFICATION Spec
CONSTANTS
    Calls = {c1, c2, c3, c4}
    Names = {n1, n2}
    Chans = {ch1, ch2}
    QueueCapacity = 2
    Concurrency = 1
    NoChan = NoChan
SYMMETRY CallSymmetry
INVARIANTS
    TypeOK
    NoCallStranded
    SlotsAccounted
PROPERTY ImplementsService
\* The system stops once every call returned and every receiver is gone.
CHECK_DEADLOCK FALSE
