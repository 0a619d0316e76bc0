CONSTANTS
    Event <- MCEvent
    Worker <- MCWorker
    MaxAttempts = 3
    BatchLimit = 1
    MaxCrashes = 1
SPECIFICATION FairSpec
INVARIANTS
    TypeOK
    ExclusiveClaim
    SettledHonestly
PROPERTIES
    SettledIsFinal
    EventuallySettled
    ImplementsDelivery
CHECK_DEADLOCK FALSE
