SPECIFICATION Spec
CONSTANTS
  Codes = {c1, c2}
  Accepts = {a1, a2}
  DeviceKeys = {k1, k2}
  TTL = 1
  MaxTime = 2
  MaxCrashes = 0
  HolderFails = FALSE
INVARIANTS OneDevicePerCode PairedMeansAuthorised CleanExit
PROPERTY NoLineLost
CHECK_DEADLOCK FALSE
