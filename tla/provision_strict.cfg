SPECIFICATION FairPairSpec
CONSTANTS
    w1 = w1
    w2 = w2
    w3 = w3
    Workers = {w1, w2}
    NoWorker = NoWorker
    MaxAttempts = 3
    RetryCap = 4
    MaxBackups = 1
    LeasesHeld = TRUE
CHECK_DEADLOCK FALSE
INVARIANTS RowsTrue BackupSound
PROPERTIES StaysPut Settles
