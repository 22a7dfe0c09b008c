\* Reads return whole packets; datagrams are lost and repeated, and
\* saving a packet may fail.
CONSTANTS
  UINT32_MAX = 2147483647
  NumPackets = 3
  MetaMayBeLost = TRUE
  DataMayBeLost = TRUE
  MayDuplicate = TRUE
  StreamCap = 2
  ReadMax = 12
  Segmentation = FALSE
  QueueCap = 1
  SaveMayFail = TRUE
SPECIFICATION Spec
INVARIANTS
  WindowsHoldOnce
  AnswersAreForSent
  RecordedIsSavedButOne
  FinishNeedsFailure
PROPERTIES
  DroppedStaysDropped
  ImplementsReliableTransfer
CHECK_DEADLOCK FALSE
