\* Packets of three bytes, and offsets below 16 in place of 2^32.  Parts of no, one and
\* several packets, the last one full or not, and parts around and above 2^32.
CONSTANTS
  Byte = 2
  UDP_PACKET_DATA_SIZE = 3
  PartSizes = {0, 2, 3, 6, 7, 15, 16, 17, 23}
  DiskMayFill = TRUE
SPECIFICATION Spec
INVARIANTS
  TypeOK
  BytesInPlace
  AllSavedIsWhole
  FlagsMarkTheEnds
PROPERTY SavedStays
CHECK_DEADLOCK FALSE
