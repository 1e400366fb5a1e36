\* What the migration promises, against one restart of a replica.
CONSTANTS
  w1 = w1  w2 = w2  t1 = t1  t2 = t2
  Workers <- TwoWorkers
  Tasks <- OneTask
  Handled <- OneTask
  MaxAttempts = 3
  MaxErrors = 0
  MaxOutages = 1
SPECIFICATION FairSpec
PROPERTY
  SurvivesRestart
CHECK_DEADLOCK FALSE
