SPECIFICATION FairSpec
CONSTANTS
    o1 = o1
    o2 = o2
    o3 = o3
    a = a
    b = b
    c = c
    d = d
    e = e
    f = f
    Pushes = {o1, o2, o3}
    None = None
    Branches = {main, a, b, c, d, e, f}
    Main = main
    Scenarios <- Meetings
    Pool = 3
    MaxConcurrent = 2
    MaxBranches = 3
    MaxUpdates = 2
    MaxFaults = 1
INVARIANTS PushesAccounted BranchOvershoot
PROPERTIES AuthorizedPush ReceiptsDrain
