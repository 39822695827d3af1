CONSTANTS
  Modes <- DolbyBursts
  FrameSizes = {6, 10}
  BurstPeriod = 20
  MaxFrames = 3
  Leads = {0, 3, 19}
  MaxBlock = 6
  MinScan = 8
  Gather = 24
  HdAppend = 6
  Refusing = FALSE
SPECIFICATION FrameSpec
CHECK_DEADLOCK FALSE
INVARIANTS FramesInOrder
