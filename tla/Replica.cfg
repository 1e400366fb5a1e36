\* Three processes apply four files, the second of which swaps the tables and the last of
\* which is broken, with two faults and two payloads; two workers publish two verdicts to one
\* stream whose queue holds one, with one fault; two replicas answer for one key, a request
\* taking a second at most.
CONSTANTS
  p1 = p1
  p2 = p2
  p3 = p3
  Processes <- ThreeProcesses
  Files = 4
  Swap = 2
  Broken <- LastFile
  MaxRows = 2
  MaxSchemaFaults = 2
  w1 = w1
  w2 = w2
  Workers <- TwoWorkers
  QueueSize = 1
  LiveSize = 2
  MaxEvents = 2
  MaxStreams = 1
  MaxInFlight = 2
  MaxFaults = 1
  r1 = r1
  r2 = r2
  Replicas <- TwoReplicas
  Ttl = 2
  DefaultTtl = 3
  MicroTtl = 1
  Slow = 1
SPECIFICATION Spec
INVARIANTS
  MigrationsSound
  
  AnswersFresh
PROPERTIES
  SummarySettles
CHECK_DEADLOCK FALSE
