\* The patch stream's unlocked standby against a write.
CONSTANTS
  normal = normal
  raw = raw
  direct = direct
  patch = patch
  Streams = {normal, patch}
  Controllers = {}
  Usecases <- MCUsecases
  Usecase <- MCUsecase
  NORMAL = "PCM_NORMAL"
  RawStreams = {}
  PatchStreams = {patch}
  Configs = {"48k"}
  DefaultConfig = "48k"
  NoConfig = NoConfig
  NoThread = NoThread
  NoStream = NoStream
  SerialControl = TRUE
  MayFail = FALSE
  MaxEvents = 0
SPECIFICATION Spec
INVARIANT ActiveIsRegistered
