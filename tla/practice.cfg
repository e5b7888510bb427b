SPECIFICATION FairSpec
CONSTANTS
    Initialize = Initialize
    Saves = {s1, s2}
    Native = Native
    Workers = {w1, w2}
    NoWorker = NoWorker
    NoJob = NoJob
    GiveUpAt = 3
    MaxPushes = 1
    MaxFaults = 2
CHECK_DEADLOCK FALSE
INVARIANTS PracticeConsistent
PROPERTIES PublishedWhileEligible Answered
