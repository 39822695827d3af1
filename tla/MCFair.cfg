\* The second stream is the audio patch's, whose thread enters standby unlocked;
\* the callback thread has two clients of the one callback type.
CONSTANTS
  Types = {"FORMATCHANGED"}
  Ids = {1, 2}
  Funcs = {"f", "g"}
  Data = {"pcm", "ac3"}
  NoData = NoData
  MaxSlots = 2
  normal = normal
  raw = raw
  direct = direct
  patch = patch
  Streams = {normal, patch}
  Controllers = {c1}
  Usecases <- MCUsecases
  Usecase <- MCUsecase
  NORMAL = "PCM_NORMAL"
  RawStreams = {}
  PatchStreams = {patch}
  Configs = {"48k"}
  DefaultConfig = "48k"
  NoConfig = NoConfig
  NoThread = NoThread
  NoStream = NoStream
  SerialControl = TRUE
  MayFail = FALSE
  MaxEvents = 0
SPECIFICATION MCFairSpec
INVARIANTS CallbackTypeOK NoDuplicate ScanLeavesNothing FreedAfterThread
PROPERTIES CallsReturn NormalHandsOver SignalledIsCalled WaitingIsReleased
