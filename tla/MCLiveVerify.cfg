SPECIFICATION FairSpec
CONSTANTS
  None = None
  True = True
  False = False
  k = k
  m = m
  read = read
  pay = pay
  Signer = k
  Key <- MCKey
  Body <- MCBody
  Loggable <- MCLoggable
  Canonical <- MCBody
  Actor = None
  OpenKey <- MCOpenKey
  OpenActor <- MCOpenActor
  Time <- MCTime
  Caller <- MCCaller
  MaxEntries = 3
CHECK_DEADLOCK FALSE
INVARIANTS
  TypeOK
  ActorIsKept
  VerdictOfAMoment
  DamageIsSeen
  NoFalseAlarm
PROPERTIES
  ListsStaySeparate
  CallReturns
