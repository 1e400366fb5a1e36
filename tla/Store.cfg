\* A replica that found ClickHouse and one that did not; a payload of each of two users,
\* one from before the first partition; the time of the other's partition passes.
SPECIFICATION Spec
CONSTANTS
  r1 = r1  r2 = r2  p1 = p1  p2 = p2  alice = alice  bob = bob
  Replicas = {r1, r2}
  Links <- Mixed
  Payloads = {p1, p2}
  Week <- MCWeek
  Owner <- MCOwner
  Level <- MCLevel
  Tampered = {p1}
  Ahead = 1
  Keep = 0
  KeepFeatures = 1
  MaxWeek = 3
  PageSize = 1
  ExportLimit = 5
  DashLimit = 1
  MaxJobs = 1
  MaxFaults = 1
INVARIANTS
  TypeOK
  
  VerdictsRemembered
  DashboardIsCurrent
  
CHECK_DEADLOCK FALSE
