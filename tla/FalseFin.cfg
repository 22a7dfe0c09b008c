\* Reads return any number of bytes; four packets, for UCP_FLAG_FIN is 3.
CONSTANTS
  UINT32_MAX = 2147483647
  NumPackets = 4
  MetaMayBeLost = FALSE
  DataMayBeLost = FALSE
  MayDuplicate = FALSE
  StreamCap = 2
  ReadMax = 10
  Segmentation = TRUE
  QueueCap = 1
  SaveMayFail = FALSE
SPECIFICATION Spec
INVARIANTS
  FinIsFromServer
CHECK_DEADLOCK FALSE
