SPECIFICATION EvidenceSpec
CONSTANTS
  None = None
  True = True
  False = False
  h1 = h1
  k = k
  m = m
  read = read
  pay = pay
  nan = nan
  Key <- MCKey
  Body <- MCBody
  Loggable <- MCBody
  Canonical <- MCCanonical
  Handle <- MCHandle
  KeyOf <- MCKeyOf
  Actor = "agent"
  Time <- MCTime
  MaxLen = 3
  MaxHeld = 6
  MaxCopied = 4
  MaxEdits = 2
  Writing <- MCWriting
SYMMETRY Symmetry
CHECK_DEADLOCK FALSE
INVARIANTS
  EvidenceTypeOK
  HistoryOK
  HeadCommits
  AcceptedWasHeld
  AnchoredIsComplete
  TamperIsLocated
