CONSTANTS
    a1 = a1
    a2 = a2
    w1 = w1
    w2 = w2
    s1 = s1
    NoRow = NoRow
    Attempt = {a1, a2}
    Worker = {w1, w2}
    Staff = {}
    Amount = 1
    MaxEvents = 2
    MaxFaults = 2
SPECIFICATION FairSpec
CHECK_DEADLOCK FALSE
PROPERTY TakenIsRecorded
