\* Saving a packet may fail.
CONSTANTS
  UINT32_MAX = 2147483647
  NumPackets = 2
  MetaMayBeLost = FALSE
  DataMayBeLost = FALSE
  MayDuplicate = FALSE
  StreamCap = 2
  ReadMax = 12
  Segmentation = FALSE
  QueueCap = 1
  SaveMayFail = TRUE
SPECIFICATION Spec
INVARIANTS
  SuccessIsComplete
CHECK_DEADLOCK FALSE
