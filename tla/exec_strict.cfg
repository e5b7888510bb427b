SPECIFICATION FairSpec
CONSTANTS
    g = g
    c = c
    p = p
    NoWorker = NoWorker
    NoJob = NoJob
    Jobs = {g, c, p}
    Workers = {w1, w2}
    Kind <- All
    InitialMax = 2
    RetryCap = 3
    SlowTransactions = FALSE
CHECK_DEADLOCK FALSE
CONSTRAINT TwoJobs
INVARIANTS AttemptsAccounted RowsAgree
PROPERTIES OutcomesFinal LifecycleSafety LifecycleProgress
