SPECIFICATION FairSpec
CONSTANTS
  MaxSessions = 2
  PathOrder <- MCPathOrder
  Outputs <- MCOutputs
  PollStart = 1
  PollMax = 3
INVARIANTS
  OneLoop
  ListingOfSession
  RowsFaithful
PROPERTIES
  TreeCatchesUp
