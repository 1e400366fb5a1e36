\* Two replicas with or without ClickHouse, two encryptions of one payload and a
\* second payload of the same id.
CONSTANTS
  p1 = p1  p2 = p2  e1 = e1  e2 = e2  e3 = e3  a = a  b = b  i1 = i1  n1 = n1  n2 = n2
  Replicas <- TwoReplicas
  Envelopes <- ThreeEnvelopes
  Texts <- TwoTexts
  Ids <- OneId
  Times <- TwoTimes
  TextOf <- TextOfThree
  IdOf <- IdOfTwo
  TimeOf <- TimeOfTwo
  Secrets <- LaterHasSecret
  ClickHouse = {TRUE, FALSE}
  MaxRequests = 3
  MaxFaults = 1
SPECIFICATION Spec
INVARIANTS
  TypeOK
  AcceptedIsKept
  
  
CHECK_DEADLOCK FALSE
