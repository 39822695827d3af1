\* A trigger that comes while the thread is not waiting.
CONSTANTS
  Types = {"FORMATCHANGED"}
  Ids = {1}
  Funcs = {"f"}
  Data = {"pcm"}
  NoData = NoData
  MaxSlots = 2
SPECIFICATION CallbackFairSpec
CHECK_DEADLOCK FALSE
PROPERTY TriggeredIsCalled
