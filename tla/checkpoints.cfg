SPECIFICATION FairSpec
CONSTANTS
    Jobs = {c1, c2}
    Native = Native
    Workers = {w1, w2}
    NoWorker = NoWorker
    NoJob = NoJob
    MaxAttempts = 2
    MaxPushes = 1
    MaxFaults = 2
CHECK_DEADLOCK FALSE
INVARIANTS CheckpointToldIsTrue
PROPERTIES NothingOverwritten Answered
