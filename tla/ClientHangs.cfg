\* The best case: two hosts, free ports, nothing lost, no crash, and every
\* transfer ends.
CONSTANTS
  NUM_THREADS = 2
  OneHost = {FALSE}
  PortsMayBeTaken = FALSE
  PartitionMayFail = FALSE
  MetaMayBeLost = FALSE
  StrayMayCrash = FALSE
SPECIFICATION TransfersEnd
PROPERTY MainReturns
CHECK_DEADLOCK FALSE
