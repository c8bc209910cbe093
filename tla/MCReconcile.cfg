SPECIFICATION Spec
CONSTANTS
  None = None
  NoList = NoList
  Raise = Raise
  alice = alice
  bob = bob
  text = text
  number = number
  d1 = d1
  d2 = d2
  Entry <- MCEntries
  Arguments <- MCArguments
  DigestOf <- MCDigests
  Custom <- MCCustom
  MaxEntries = 3
CHECK_DEADLOCK FALSE
INVARIANTS
  TypeOK
  EveryClaimIsSettled
  CleanMeansAgreement
  RefusalsAreListed
  OrdinalsCountSteps
  BindingIsTheLast
