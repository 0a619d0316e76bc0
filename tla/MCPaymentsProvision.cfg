CONSTANTS
    a1 = a1
    a2 = a2
    w1 = w1
    w2 = w2
    s1 = s1
    NoRow = NoRow
    Attempt = {a1}
    Worker = {w1}
    Staff = {}
    Amount = 1
    MaxEvents = 3
    MaxFaults = 1
SPECIFICATION Spec
CHECK_DEADLOCK FALSE
INVARIANT PaidCheckoutProvisioned
