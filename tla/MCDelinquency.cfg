SPECIFICATION FairSpec
CONSTANTS
  Ladder <- MCLadder
  Turn <- ByTheHour
  SuspendAt = 1
  MaxBehind = 0
  MaxUpsets = 1
INVARIANTS TypeOK ClimbedInOrder LockIsKnown
PROPERTIES PaidIsLetIn LockComesOff HoldsEnd
