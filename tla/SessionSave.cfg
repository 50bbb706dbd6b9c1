SPECIFICATION FairSpec
CONSTANTS
  p1 = p1
  p2 = p2
  p3 = p3
  Panes = {p1, p2, p3}
  Mutations = 2
  Exits = 3
  Faults = 1
  
PROPERTIES NewerSaveWins EventuallySaved
CHECK_DEADLOCK FALSE
