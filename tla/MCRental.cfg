CONSTANTS
    Unit <- MCUnit
    NoUnit = "no unit"
    Session <- MCSession
    NoLease = "no lease"
    Reservation <- MCReservation
    NoReservation = "no reservation"
    Steps = 3
    MaxBasket = 2
    MaxCalls = 1
SPECIFICATION FairSpec
INVARIANTS
    TypeOK
    
    
    MoveInEndsHold
PROPERTIES
    
    LapsedIsSwept
CHECK_DEADLOCK FALSE
