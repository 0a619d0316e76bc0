CONSTANTS
    a1 = a1
    a2 = a2
    w1 = w1
    w2 = w2
    s1 = s1
    NoRow = NoRow
    Attempt = {a1}
    Worker = {w1, w2}
    Staff = {s1}
    Amount = 2
    MaxEvents = 3
    MaxFaults = 1
SPECIFICATION Spec
SYMMETRY Symmetry
CHECK_DEADLOCK FALSE
INVARIANTS TypeOK  BooksMatchStripe
