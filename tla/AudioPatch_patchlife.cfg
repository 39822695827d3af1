\* A device patch in every order of client, input and output thread.
CONSTANTS
  MaxPatches = 1
  MaxSets = 2
  MaxParsers = 1
  RingSize = 2
  Muls = {1, 2}
  Threshold = 2
  InDevices = {"hdmi", "tuner", "spdif"}
  Faults = {"open", "create", "input", "output", "parse"}
  Exclusive = TRUE
SPECIFICATION FairSpec
INVARIANTS TypeOK ThreadsUseLivePatch TriggerIsSafe ReleaseIsOfLivePatch PatchIsReleasable PutFits
PROPERTY CallsReturn
