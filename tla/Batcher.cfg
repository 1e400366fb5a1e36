SPECIFICATION FairSpec
CONSTANTS
  r1 = r1
  r2 = r2
  r3 = r3
  Rows <- ThreeRows
  Tables <- TwoTables
  TableOf <- OfThreeRows
  OneWord <- SingleWord
  MaxRetries = 2
  MaxSeconds = 1
  MaxDoubtful = 1
INVARIANTS
  TypeOK
  
  InsertedOnce
PROPERTIES
  EventuallyFlushed
CHECK_DEADLOCK FALSE
