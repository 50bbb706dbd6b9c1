SPECIFICATION FairSpec
CONSTANTS
  Codes = {c1}
  Accepts = {a1, a2}
  DeviceKeys = {k1}
  TTL = 1
  MaxTime = 2
  MaxCrashes = 1
  HolderFails = TRUE
PROPERTY CeremonyEnds
CHECK_DEADLOCK FALSE
