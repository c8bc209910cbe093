SPECIFICATION Spec
CONSTANTS
  None = None
  m1 = m1
  m2 = m2
  q = 29
  b = 6
  L = 5
  d = 27
  By = 23
  Hash <- MCHash
  Message <- MCMessage
CHECK_DEADLOCK FALSE
INVARIANTS
  TypeOK
  SignaturesVerify
  SignaturesBind
  VerdictIsTheEquation
