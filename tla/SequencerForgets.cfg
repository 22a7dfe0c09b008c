CONSTANTS
  UINT32_MAX = 6
  NumPackets = 6
SPECIFICATION Spec
INVARIANT AddedIsCovered
CHECK_DEADLOCK FALSE
