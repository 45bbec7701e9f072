CONSTANTS
  db1 = db1
  Databases <- OneDatabase
  MaxTasks = 2
  MaxStores = 2
  MaxCreated = 3
SPECIFICATION FairSpec
INVARIANTS TypeOK NoUseAfterFree ListBounded
PROPERTIES ImplementsQueue TaskEnds
CHECK_DEADLOCK FALSE
