\* Sync words at every offset of the reads.
CONSTANTS
  Bytes = 8
  Period = 20
SPECIFICATION ScanSpec
INVARIANT EveryWordIsFound
CHECK_DEADLOCK FALSE
