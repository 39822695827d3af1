\* A client that captures from one source while another plays.
CONSTANTS
  MaxPatches = 1
  MaxSets = 2
  MaxParsers = 1
  RingSize = 2
  Muls = {1, 2}
  Threshold = 2
  InDevices = {"hdmi", "line"}
  Faults = {}
  Exclusive = FALSE
SPECIFICATION Spec
INVARIANT PatchIsReleasable
