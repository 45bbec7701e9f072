CONSTANTS
  Kinds <- AllKinds
  MaxCommands = 2
  MaxEach = 2
  MaxReliable = 2
  MaxServer = 1
  MaxMap = 1
  MaxRestart = 1
  NetMax = 1
  Forged <- MCForged
SPECIFICATION Spec
INVARIANTS TypeOK ExecutedInOrder NoCommandLost AcknowledgeInRange ActiveKnowsMap
CHECK_DEADLOCK FALSE
