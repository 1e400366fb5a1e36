\* One replica that found ClickHouse reachable, no fault.
CONSTANTS
  p1 = p1  p2 = p2  e1 = e1  e2 = e2  e3 = e3  a = a  b = b  i1 = i1  n1 = n1  n2 = n2
  Replicas <- OneReplica
  Envelopes <- ThreeEnvelopes
  Texts <- TwoTexts
  Ids <- OneId
  Times <- TwoTimes
  TextOf <- TextOfThree
  IdOf <- IdOfTwo
  TimeOf <- TimeOfTwo
  Secrets <- LaterHasSecret
  ClickHouse = {TRUE}
  MaxRequests = 3
  MaxFaults = 0
SPECIFICATION Spec
INVARIANTS
  DuplicateIdRefused
CHECK_DEADLOCK FALSE
