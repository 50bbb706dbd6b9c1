SPECIFICATION Spec
CONSTANTS
  Writes = {w1}
  Subs = {s1}
  EmptyText = {}
  EmptyEnter = {}
  None = None
  DataBound = 2
  MaxRequests = 3
  MaxResponses = 1
CHECK_DEADLOCK FALSE
INVARIANT RollbackReopensGate
