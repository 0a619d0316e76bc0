SPECIFICATION Spec
CONSTANTS
  pin1 = pin1  pin2 = pin2  key1 = key1
  c1 = c1  c2 = c2  d1 = d1  d2 = d2
  Pin <- Codes
  Key <- Keys
  NoCred = NoCred
  MaxAttempts = 1
  MaxRequests = 5
  MaxFaults = 0
  Caller <- OneCaller
  Drain <- OneDrain
INVARIANT WithdrawnStaysShut
CHECK_DEADLOCK FALSE
