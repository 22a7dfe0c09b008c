\* Three threads; everything that may go wrong may.
CONSTANTS
  NUM_THREADS = 3
  OneHost = {TRUE}
  PortsMayBeTaken = TRUE
  PartitionMayFail = TRUE
  MetaMayBeLost = TRUE
  StrayMayCrash = TRUE
SPECIFICATION LiveSpec
INVARIANTS
  TypeOK
  WindowsHaveOneUser
  HandlesAreOwn
  WatchedIsScanned
  ReturnNeedsFailedBinds
PROPERTY MetadataStartsTransfer
CHECK_DEADLOCK FALSE
