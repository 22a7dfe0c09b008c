\* Three packets, a fair network that may lose them; a read takes as much as
\* the answers to one copy of a packet, three control packets.
CONSTANTS
  UINT32_MAX = 2147483647
  NumPackets = 3
  MetaMayBeLost = FALSE
  DataMayBeLost = TRUE
  MayDuplicate = FALSE
  StreamCap = 3
  ReadMax = 18
  Segmentation = FALSE
  QueueCap = 1
  SaveMayFail = FALSE
SPECIFICATION LiveSpec
PROPERTIES
  EverythingSaved
CHECK_DEADLOCK FALSE
