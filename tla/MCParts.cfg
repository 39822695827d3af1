CONSTANTS
  Bytes = {0, 1}
  Zero = 0
  MaxSize = 3
  MaxRequest = 4
  MixBytes = {0, 1}
  MixZero = 0
  BufSize = 4
  MixGuard = 1
  MaxMix = 4
  BlockSizes = {1, 2}
  Package <- MCPackage
  IecCheckSize = 3
  TypePresets = {"none", "bitstream"}
  SizeCap = 8
  MatBytes = 6
  Payload = 4
  MaxBursts = 3
  Modes <- MCModes
  FrameSizes = {6, 10}
  BurstPeriod = 20
  MaxFrames = 3
  Leads = {19}
  MaxBlock = 6
  MinScan = 8
  Gather = 24
  HdAppend = 6
  Refusing = FALSE
  OutputFrames = 2
  DelayFrames = 3
  DelayBuf = 8
  EaseIn = 4
  SilenceFrames = 3
  MaxWritten = 6
  MaxPlayed = 8
  Samples = {0, 1}
  Silent = 0
  Rates = {1, 2}
  DelayMax = 1
  FrameMax = 1
  MaxDelayTime = 2
  Inputs = {i1, i2}
  InDevices = {hdmi, line}
  NoInput = NoInput
  SpdifRates = {r32, r48}
  NoRate = NoRate
  Detecting = 4
  MaxGap = 3
SPECIFICATION PartsSpec
CHECK_DEADLOCK FALSE
INVARIANTS TypeOK PcmIsSettled BurstsAreTracked FramesAreWhole FramesInOrder InbufBounded
INVARIANTS PiecesFitBuffer FadeReachesSilence ActiveInputIsOpen StandbyHoldsNoDevice
INVARIANTS ReportedRateIsConfirmed SteadyRateIsReported
PROPERTIES ImplementsFifo ImplementsMixQueue ImplementsDelayLine
