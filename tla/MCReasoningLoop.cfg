\* Two runs of one run_id over one memory; limits 0 and 2.
SPECIFICATION FairSpec
CONSTANTS
    r1 = r1
    r2 = r2
    Runs = {r1, r2}
    Ids = {i1}
    Limits = {0, 2}
    MaxBatch <- MCMaxBatch
INVARIANTS
    TypeOK
    StepLimit
    EveryCallObserved
    OnlyValidExecuted
    OneAnswerPerRun
    ContextIsPrefix
PROPERTY EveryRunReturns
\* The system stops once every run has returned.
CHECK_DEADLOCK FALSE
