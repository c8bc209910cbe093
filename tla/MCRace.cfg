SPECIFICATION Spec
CONSTANTS
  None = None
  True = True
  False = False
  h1 = h1
  t1 = t1
  t2 = t2
  k = k
  read = read
  deep = deep
  Key <- MCKey
  Body <- MCBody
  Loggable <- MCLoggable
  Canonical <- MCBody
  Handle <- MCHandle
  KeyOf <- MCKeyOf
  Actor = "agent"
  Thread <- MCThread
  Uses <- SharedChain
  MaxLen = 4
  MaxHeld = 5
  MaxTime = 1
  CallerTime <- SetTime
SYMMETRY Symmetry
INVARIANTS
  RaceShape
  RaceIsLocated
  DamageStays
