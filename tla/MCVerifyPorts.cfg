SPECIFICATION PortsSpec
CONSTANTS
  None = None
  True = True
  False = False
  Absent = Absent
  h1 = h1
  k = k
  m = m
  large = large
  big = big
  nan = nan
  Key <- MCKey
  Body <- MCBody
  Loggable <- MCBody
  Canonical <- MCCanonical
  JSCanonical <- MCJSCanonical
  JSForm <- MCJSForm
  Handle <- MCHandle
  KeyOf <- MCKeyOf
  Actor = "agent"
  Time <- MCTime
  MaxLen = 2
  MaxHeld = 4
  MaxCopied = 4
  MaxEdits = 2
  Writing <- MCWriting
CHECK_DEADLOCK FALSE
INVARIANTS
  SameVerdict
  SameAcceptance
  AcceptedBesideWasHeld
