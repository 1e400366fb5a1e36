\* One log; four payloads within three days, and a history query that reaches them all.
CONSTANTS
  u1 = u1  u2 = u2  u3 = u3  u4 = u4  u5 = u5
  Logs <- OneLog
  Host <- Hosts
  Weekend <- Sundays
  Scenario <- Roles
  Window = 2
  Step = 1
  Kinds <- TwoKinds
  FeaturesOf <- Features
  TextKinds <- Nothing
  ProfileOf <- Profiles
  RiskOf <- Risk2
  ProbOf <- Prob2
  Predict <- Mean2
  SameName = TRUE
  MinDays = 3
  Warm = 2
  Reach = 4
  MaxPayloads = 3
  MaxWaiting = 1
  MaxDay = 3
  MaxFaults = 0
SPECIFICATION Spec
INVARIANT ServedLikeTrained
CHECK_DEADLOCK FALSE
