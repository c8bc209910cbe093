SPECIFICATION FairSpec
CONSTANTS
  None = None
  True = True
  False = False
  h1 = h1
  h2 = h2
  t1 = t1
  t2 = t2
  k1 = k1
  k2 = k2
  read = read
  deep = deep
  Key <- MCKey
  Body <- MCBody
  Loggable <- MCLoggable
  Canonical <- MCBody
  Handle <- MCHandle
  KeyOf <- MCKeyOf
  Actor = "agent"
  Thread <- MCThread
  Uses <- OwnChain
  MaxLen = 3
  MaxHeld = 5
  MaxTime = 1
  CallerTime <- MCCallerTime
INVARIANTS
  TypeOK
  ChainsVerify
  AnchorIsExact
  TimeVerdict
  HonestClockVerifies
PROPERTIES
  ImplementsTrails
  AppendsEnd
