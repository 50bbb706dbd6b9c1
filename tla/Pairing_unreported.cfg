SPECIFICATION Spec
CONSTANTS
  Codes = {c1}
  Accepts = {a1}
  DeviceKeys = {k1}
  TTL = 1
  MaxTime = 3
  MaxCrashes = 0
  HolderFails = FALSE
INVARIANT EnrollmentIsDisplayed
CHECK_DEADLOCK FALSE
