SPECIFICATION Spec
CONSTANTS
  None = None
  Raise = Raise
  NaN = NaN
  Halves <- MCHalves
  CodePoint <- MCCodePoint
  MaxSafe = 3
  Exponent = 6
  MaxDepth = 2
  MaxHops = 3
CHECK_DEADLOCK FALSE
INVARIANT
  FallbackIsJCS
