\* Two logs of five users, sequences of two days; then three payloads of five kinds within
\* three days.
CONSTANTS
  u1 = u1  u2 = u2  u3 = u3  u4 = u4  u5 = u5
  Logs <- TwoLogs
  Host <- Hosts
  Weekend <- Sundays
  Scenario <- Roles
  Window = 2
  Step = 1
  Kinds <- FiveKinds
  FeaturesOf <- Features
  TextKinds <- Notes
  ProfileOf <- Profiles
  RiskOf <- Risk
  ProbOf <- Prob
  Predict <- MeanOfTwo
  SameName = TRUE
  MinDays = 3
  Warm = 2
  Reach = 2
  MaxPayloads = 3
  MaxWaiting = 1
  MaxDay = 3
  MaxFaults = 1
SPECIFICATION Spec
INVARIANTS
  TypeOK
  RaisedNeedsWitness
  FaultsOnlyLower
  
  
CHECK_DEADLOCK FALSE
