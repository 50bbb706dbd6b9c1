SPECIFICATION FairSpec
CONSTANTS
  Attached = {p1, p2, p3}
  Loose = {popup}
  Attempts = 2
  Faults = 2
INVARIANTS OneReader PanesSurvive SocketsFollowOwner OneMasterFd ReplyTellsOutcome
PROPERTIES HandoffSettles OwnershipSpec
CHECK_DEADLOCK FALSE
