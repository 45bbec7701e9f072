CONSTANTS
  MaxCreated = 2
  MaxLevel = 2
SPECIFICATION FairSpec
INVARIANTS TypeOK NoUseAfterFree
PROPERTIES ImplementsQueue TaskEnds
CHECK_DEADLOCK TRUE
