CONSTANTS
  FileSize = 5
  BlockSizes <- OneTwo
  Window = 2
  HalfShort = 4
  Permissions <- Any
  NetMax = 2
SPECIFICATION FairSpec
INVARIANTS TypeOK NeverBroken ClosedAfterClient
PROPERTIES ImplementsTransfer DownloadEnds
CHECK_DEADLOCK FALSE
