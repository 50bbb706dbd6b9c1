SPECIFICATION FairSpec
CONSTANTS
  MaxEvents = 2
  Agents = {claude, codex}
  NoAgent = none
  AtFirst = {claude, none}
  States = {"idle", "working"}
  Timeouts = 1
  Scenarios <- MCScenarios
  Requests <- MCRequests
INVARIANTS
  NoSilentGap
  LostIsTrue
  SampledIsTold
  
  PromptWasActive
  
PROPERTIES
  NeverBackwards
  LastIsTold
  WantedIsTold
  WaitIsServed
  WaitEnds
  WantedEndsWait
CHECK_DEADLOCK FALSE
