SPECIFICATION Spec
CONSTANTS
  pin1 = pin1  pin2 = pin2  key1 = key1
  c1 = c1  c2 = c2  d1 = d1  d2 = d2
  Pin <- Codes
  Key <- Keys
  NoCred = NoCred
  MaxAttempts = 2
  MaxRequests = 3
  MaxFaults = 1
  Caller <- TwoCallers
  Drain <- OneDrain
INVARIANT TypeOK DriftHasACause
PROPERTY RevivalNeedsARace
CHECK_DEADLOCK FALSE
SYMMETRY Symmetry
