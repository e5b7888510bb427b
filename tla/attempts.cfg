SPECIFICATION Spec
CONSTANTS
    first = first
    again = again
    other = other
    k1 = k1
    k2 = k2
    p1 = p1
    p2 = p2
    Requests = {first, again, other}
    KeyOf <- Keys
    SourcesOf <- Sources
    FirstLimit = 1
    LastLimit = 2
    Mode = "GRADED"
    Scores = {0, 1}
    FirstDue = 1
    LastDue = 1
    MaxTime = 1
    ClockHeld = TRUE
CHECK_DEADLOCK FALSE
CONSTRAINT ThreeOrRaised
INVARIANTS UsedOnce AttemptLimit CreditedIsBest
PROPERTIES ClosingHolds
