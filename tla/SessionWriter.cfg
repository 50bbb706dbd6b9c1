SPECIFICATION Spec
CONSTANTS
  l1 = l1
  l2 = l2
  f1 = f1
  Layouts = {l1, l2}
  Foreign = {f1}
  SnapshotLimit = 2
  BackupLimit = 2
  Interval = 1
  MaxTime = 1
  Jobs = 4
  Crashes = 1
  Faults = 1
  Rollbacks = 1
  Handoffs = 1
INVARIANTS NeverTorn UnloadedIsKept AckedSaveIsDurable SnapshotsBounded
PROPERTIES PruneKeepsEnough LongLivedLayoutIsKept
CHECK_DEADLOCK FALSE
