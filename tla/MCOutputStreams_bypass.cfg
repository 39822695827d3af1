\* Two direct streams share the device's bypass flag.
CONSTANTS
  normal = normal
  raw = raw
  direct = direct
  patch = patch
  Streams = {raw, direct}
  Controllers = {}
  Usecases <- MCUsecases
  Usecase <- MCUsecase
  NORMAL = "PCM_NORMAL"
  RawStreams = {raw}
  PatchStreams = {}
  Configs = {"48k"}
  DefaultConfig = "48k"
  NoConfig = NoConfig
  NoThread = NoThread
  NoStream = NoStream
  SerialControl = TRUE
  MayFail = FALSE
  MaxEvents = 1
SPECIFICATION Spec
INVARIANT NoNullHandle
