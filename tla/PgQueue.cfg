\* Two tasks, one of them without a handler, two replicas, two
\* failed transactions, two outages.
CONSTANTS
  w1 = w1  w2 = w2  t1 = t1  t2 = t2
  Workers <- TwoWorkers
  Tasks <- TwoTasks
  Handled <- OneTask
  MaxAttempts = 2
  MaxErrors = 2
  MaxOutages = 2
SPECIFICATION FairSpec
INVARIANTS
  TypeOK
  ClaimsSound
PROPERTIES
  EventuallySettled
  ImplementsPromise
CHECK_DEADLOCK FALSE
