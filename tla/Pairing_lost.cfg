SPECIFICATION Spec
CONSTANTS
  Codes = {c1, c2}
  Accepts = {a1}
  DeviceKeys = {k1}
  TTL = 1
  MaxTime = 3
  MaxCrashes = 1
  HolderFails = TRUE
INVARIANT EnrolledIsAuthorised
CHECK_DEADLOCK FALSE
