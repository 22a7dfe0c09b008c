\* Six packets; the largest uint32_t is 6, just above their numbers.
CONSTANTS
  UINT32_MAX = 6
  NumPackets = 6
SPECIFICATION Spec
INVARIANTS
  TypeOK
  SortedGaps
  OnePassMerges
  CoveredIsAdded
  LostIsBelow
  NoPrematureFinish
  MissingIsEveryGap
PROPERTY ImplementsSet
\* The loop is over once sequencer_complete has returned TRUE.
CHECK_DEADLOCK FALSE
