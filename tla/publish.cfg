SPECIFICATION Spec
CONSTANTS
    j1 = j1
    j2 = j2
    ann = ann
    ben = ben
    main = main
    side = side
    other = other
    w1 = w1
    w2 = w2
    Jobs = {j1, j2}
    Plans <- Meetings
    Actors = {ann, ben}
    Branches = {main, side, other}
    Main = main
    MaxBranches = 2
    Workers = {w1, w2}
    NoWorker = NoWorker
    NoJob = NoJob
    Lead = ann
    GiveUpAt = 2
    MaxMoves = 1
    MaxFaults = 2
    Fenced = TRUE
SYMMETRY AnyWorker
CHECK_DEADLOCK FALSE
INVARIANTS ToldIsTrue BranchLimit NeverStuck
PROPERTIES AuthorizedPublication NoLostUpdate
