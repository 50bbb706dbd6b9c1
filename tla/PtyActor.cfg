SPECIFICATION FairSpec
CONSTANTS
  Writes = {w1}
  Subs = {s1, s2}
  EmptyText = {s2}
  EmptyEnter = {s2}
  None = None
  DataBound = 2
  MaxRequests = 3
  MaxResponses = 1
CHECK_DEADLOCK FALSE
INVARIANTS InputConserved QuiescedHoldsNoInput HeldMeansQuiesced BoundaryMatchesPhase ReplyTellsTruth
PROPERTY ClosingAnswersAll
