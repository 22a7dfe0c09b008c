\* Reads return any number of bytes up to ReadMax, 10 for the 1024 of the code
\* (both are 4 modulo the 6 bytes of a packet).
CONSTANTS
  UINT32_MAX = 2147483647
  NumPackets = 2
  MetaMayBeLost = FALSE
  DataMayBeLost = TRUE
  MayDuplicate = FALSE
  StreamCap = 3
  ReadMax = 10
  Segmentation = TRUE
  QueueCap = 1
  SaveMayFail = FALSE
SPECIFICATION Spec
INVARIANTS
  TypeOK
  AckedIsSaved
  ExhaustedIsComplete
CHECK_DEADLOCK FALSE
