SPECIFICATION FairSpec
CONSTANTS
  pin1 = pin1  pin2 = pin2  key1 = key1
  c1 = c1  c2 = c2  d1 = d1  d2 = d2
  Pin <- OneCode
  Key <- Keys
  NoCred = NoCred
  MaxAttempts = 2
  MaxRequests = 2
  MaxFaults = 2
  Caller <- OneCaller
  Drain <- TwoDrains
INVARIANT SuccessIsReal
PROPERTY QueueDrains
CHECK_DEADLOCK FALSE
