\* One more thread controls the streams at any moment.
CONSTANTS
  normal = normal
  raw = raw
  direct = direct
  patch = patch
  Streams = {normal, raw}
  Controllers = {c1}
  Usecases <- MCUsecases
  Usecase <- MCUsecase
  NORMAL = "PCM_NORMAL"
  RawStreams = {raw}
  PatchStreams = {}
  Configs = {"48k"}
  DefaultConfig = "48k"
  NoConfig = NoConfig
  NoThread = NoThread
  NoStream = NoStream
  SerialControl = FALSE
  MayFail = TRUE
  MaxEvents = 0
SPECIFICATION Spec
INVARIANTS TypeOK ActiveIsRegistered NoPhantomUsecase WriteSuitsMasks ClosedIsInactive LockDiscipline
