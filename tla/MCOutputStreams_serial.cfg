\* Controls come between writes.
CONSTANTS
  normal = normal
  raw = raw
  direct = direct
  patch = patch
  Streams = {normal, raw}
  Controllers = {c1}
  Usecases <- MCUsecases
  Usecase <- MCUsecase
  NORMAL = "PCM_NORMAL"
  RawStreams = {raw}
  PatchStreams = {}
  Configs = {"48k", "96k"}
  DefaultConfig = "48k"
  NoConfig = NoConfig
  NoThread = NoThread
  NoStream = NoStream
  SerialControl = TRUE
  MayFail = TRUE
  MaxEvents = 1
SPECIFICATION Spec
INVARIANTS NoNullHandle NoLeakedHandle StatusTellsOutput
