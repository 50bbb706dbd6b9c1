SPECIFICATION Spec
CONSTANTS
  l1 = l1
  l2 = l2
  f1 = f1
  Layouts = {l1, l2}
  Foreign = {f1}
  SnapshotLimit = 2
  BackupLimit = 2
  Interval = 2
  MaxTime = 1
  Jobs = 4
  Crashes = 0
  Faults = 0
  Rollbacks = 0
  Handoffs = 1
INVARIANTS OriginalIsPreserved
CHECK_DEADLOCK FALSE
