\* Two packets, a fair network.
CONSTANTS
  UINT32_MAX = 2147483647
  NumPackets = 2
  MetaMayBeLost = FALSE
  DataMayBeLost = TRUE
  MayDuplicate = FALSE
  StreamCap = 2
  ReadMax = 12
  Segmentation = FALSE
  QueueCap = 1
  SaveMayFail = FALSE
SPECIFICATION LiveSpec
PROPERTIES
  ClientCloses
CHECK_DEADLOCK FALSE
