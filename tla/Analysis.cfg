\* Two workers, a payload the detectors find benign or critical and another
\* without corroboration that may be idle, of one user.
CONSTANTS
  w1 = w1  w2 = w2  t1 = t1  t2 = t2  u1 = u1  standard = standard
  Workers <- TwoWorkers
  Tasks <- TwoTasks
  Users <- OneUser
  Roles <- OneRole
  UserOf <- UserOfTwo
  RoleOf <- RoleOfAll
  Idle <- SecondIdle
  RawOf <- RawOfTwo
  Corroborated <- FirstConfirmed
  HasClickHouse = TRUE
  Skew <- Ahead
  MaxAttempts <- OneRetry
  AlertAttempts = 1
  MaxFaults = 1
SPECIFICATION FairSpec
INVARIANTS
  TypeOK
  UpdatesCounted
  MaliciousNotLearned
  CriticalNotForgotten
  AlertsBacked
  RerunNotMilder
  CompletedIsRecorded

  
CHECK_DEADLOCK FALSE
