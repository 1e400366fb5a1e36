\* Two tasks, one of them without a handler, two replicas and one fault: every
\* interleaving of their calls, and what fair workers do in the end.
CONSTANTS
  w1 = w1  w2 = w2  t1 = t1  t2 = t2
  Workers <- TwoWorkers
  Tasks <- TwoTasks
  Handled <- OneTask
  MaxAttempts = 2
  MaxFaults = 1
SPECIFICATION FairSpec
INVARIANTS
  TypeOK
  NoSilentLoss
  RetryBudget
  Exclusive
PROPERTIES
  ImplementsPromise
  Settles
