SPECIFICATION PortSpec
CONSTANTS
  None = None
  NoList = NoList
  Raise = Raise
  Function = Function
  alice = alice
  bob = bob
  text = text
  plain = plain
  unsafe = unsafe
  reordered = reordered
  number = number
  d1 = d1
  d2 = d2
  d3 = d3
  d4 = d4
  d5 = d5
  Inherited <- MCInherited
  Entry <- MCEntries
  Arguments <- MCArguments
  DigestOf <- MCDigests
  JSDigestOf <- MCJSDigests
  Custom <- Nothing
  Limit = 4
  MaxEntries = 2
CHECK_DEADLOCK FALSE
INVARIANT
  SameResult
